---- MODULE Spec2Model ----
(***************************************************************************)
(* tarjouspalvelu.js: the session operations of utilities.ts (slug         *)
(* resolution, session acquisition, login, session language) and the       *)
(* session-bearing page fetches of company.ts, notice.ts and tender.ts,    *)
(* run against a portal that answers every request nondeterministically.   *)
(*                                                                         *)
(* JavaScript strings are TLA+ strings (Len, SubSeq and \o work on them),  *)
(* every other JavaScript value is a tagged record, so that undefined,     *)
(* null, NaN and the empty string stay distinct values.                    *)
(***************************************************************************)
EXTENDS Integers, Sequences, FiniteSets, TLC

VARIABLES session, culture, call

vars == <<session, culture, call>>

----------------------------------------------------------------------------
(* JavaScript values *)

Undefined == [t |-> "undefined"]

Null == [t |-> "null"]

NaN == [t |-> "NaN"]

Str(s) == [t |-> "string", v |-> s]

Num(n) == [t |-> "number", v |-> n]

Arr(a) == [t |-> "array", v |-> a]

Ref(o) == [t |-> "session", v |-> o]

Bool(b) == [t |-> "boolean", v |-> b]

\* !v of JavaScript
Falsy(v) ==
    \/ v.t \in {"undefined", "null", "NaN"}
    \/ v.t = "string" /\ v.v = ""
    \/ v.t = "number" /\ v.v = 0

Digits == <<"0", "1", "2", "3", "4", "5", "6", "7", "8", "9">>

RECURSIVE NumToStr(_)
NumToStr(n) ==
    IF n < 10 THEN Digits[n + 1]
    ELSE NumToStr(n \div 10) \o Digits[(n % 10) + 1]

\* `${v}` of a template literal
ToStr(v) ==
    CASE v.t = "string" -> v.v
      [] v.t = "number" -> NumToStr(v.v)
      [] OTHER -> v.t

----------------------------------------------------------------------------
(* String functions *)

\* s.indexOf(pat, from - 1) + 1: the first position >= from where pat
\* occurs in s, 0 when there is none
IndexOf(s, pat, from) ==
    LET last == Len(s) - Len(pat) + 1
        At(i) == SubSeq(s, i, i + Len(pat) - 1) = pat
    IN IF \E i \in from..last : At(i)
       THEN CHOOSE i \in from..last : At(i) /\ \A j \in from..(i - 1) : ~At(j)
       ELSE 0

\* s.match(/pre(.*?)post/): the captured group of the leftmost match with
\* the shortest capture, Null when the pattern does not match
Match(s, pre, post) ==
    LET i == IndexOf(s, pre, 1)
    IN IF i = 0 THEN Null
       ELSE LET j == IndexOf(s, post, i + Len(pre))
            IN IF j = 0 THEN Null
               ELSE Str(SubSeq(s, i + Len(pre), j - 1))

\* s.substr(n)
Substr(s, n) == SubSeq(s, n + 1, Len(s))

\* array.join(sep)
RECURSIVE Join(_, _)
Join(a, sep) ==
    IF Len(a) = 0 THEN ""
    ELSE IF Len(a) = 1 THEN a[1]
    ELSE a[1] \o sep \o Join(Tail(a), sep)

\* s.split(sep) for a one-character sep
RECURSIVE Split(_, _)
Split(s, sep) ==
    LET i == IndexOf(s, sep, 1)
    IN IF i = 0 THEN <<s>>
       ELSE <<SubSeq(s, 1, i - 1)>> \o Split(SubSeq(s, i + 1, Len(s)), sep)

\* querystring.parse(s)[key]: undefined when no pair has the key, the value
\* of the only pair that has it, the array of the values otherwise
QsKey(pair) ==
    LET i == IndexOf(pair, "=", 1)
    IN IF i = 0 THEN pair ELSE SubSeq(pair, 1, i - 1)

QsVal(pair) ==
    LET i == IndexOf(pair, "=", 1)
    IN IF i = 0 THEN "" ELSE SubSeq(pair, i + 1, Len(pair))

QsGet(s, key) ==
    LET pairs == SelectSeq(Split(s, "&"), LAMBDA p : Len(p) > 0)
        hits == SelectSeq(pairs, LAMBDA p : QsKey(p) = key)
    IN IF Len(hits) = 0 THEN Undefined
       ELSE IF Len(hits) = 1 THEN Str(QsVal(hits[1]))
       ELSE Arr([k \in 1..Len(hits) |-> QsVal(hits[k])])

\* v.toString() of a string or an array of strings
ToStringOf(v) == IF v.t = "array" THEN Join(v.v, ",") ELSE v.v

UpperCase == "ABCDEFGHIJKLMNOPQRSTUVWXYZÄÖÅ"

LowerCase == "abcdefghijklmnopqrstuvwxyzäöå"

\* s.toLowerCase()
RECURSIVE toLowerCase(_)
toLowerCase(s) ==
    IF Len(s) = 0 THEN ""
    ELSE LET ch == SubSeq(s, 1, 1)
             i == IndexOf(UpperCase, ch, 1)
         IN (IF i = 0 THEN ch ELSE SubSeq(LowerCase, i, i))
            \o toLowerCase(SubSeq(s, 2, Len(s)))

\* s.trim(), s.trimEnd() for blanks
RECURSIVE TrimEnd(_)
TrimEnd(s) ==
    IF Len(s) > 0 /\ SubSeq(s, Len(s), Len(s)) = " "
    THEN TrimEnd(SubSeq(s, 1, Len(s) - 1))
    ELSE s

DigitVal(c) == CHOOSE d \in 0..9 : Digits[d + 1] = c

IsDigit(c) == \E d \in 1..10 : Digits[d] = c

RECURSIVE DigitPrefix(_)
DigitPrefix(s) ==
    IF Len(s) > 0 /\ IsDigit(SubSeq(s, 1, 1))
    THEN SubSeq(s, 1, 1) \o DigitPrefix(SubSeq(s, 2, Len(s)))
    ELSE ""

RECURSIVE DecimalValue(_)
DecimalValue(s) ==
    IF Len(s) = 0 THEN 0
    ELSE 10 * DecimalValue(SubSeq(s, 1, Len(s) - 1))
         + DigitVal(SubSeq(s, Len(s), Len(s)))

RECURSIVE TrimStart(_)
TrimStart(s) ==
    IF Len(s) > 0 /\ SubSeq(s, 1, 1) = " "
    THEN TrimStart(SubSeq(s, 2, Len(s)))
    ELSE s

\* parseInt(s): leading blanks are skipped, a sign is read, then the longest
\* prefix of decimal digits; NaN when that prefix is empty
parseInt(s) ==
    LET t == TrimStart(s)
        neg == Len(t) > 0 /\ SubSeq(t, 1, 1) = "-"
        signed == Len(t) > 0 /\ SubSeq(t, 1, 1) \in {"-", "+"}
        body == IF signed THEN SubSeq(t, 2, Len(t)) ELSE t
        ds == DigitPrefix(body)
    IN IF Len(ds) = 0 THEN NaN
       ELSE Num(IF neg THEN 0 - DecimalValue(ds) ELSE DecimalValue(ds))

Trim(s) == TrimEnd(TrimStart(s))

\* s.replace(pat, rep) with a string pattern: the first occurrence
ReplaceFirst(s, pat, rep) ==
    LET i == IndexOf(s, pat, 1)
    IN IF i = 0 THEN s
       ELSE SubSeq(s, 1, i - 1) \o rep \o SubSeq(s, i + Len(pat), Len(s))

\* s.split(sep)[0]
SplitHead(s, sep) ==
    IF IndexOf(s, sep, 1) = 0 THEN s ELSE SubSeq(s, 1, IndexOf(s, sep, 1) - 1)

\* src.match(/ikoni_(.*?).gif/): the dot stands for any one character
MatchIkoni(s) ==
    LET i == IndexOf(s, "ikoni_", 1)
    IN IF i = 0 THEN Null
       ELSE LET j == IndexOf(s, "gif", i + 7)
            IN IF j = 0 THEN Null ELSE Str(SubSeq(s, i + 6, j - 2))

----------------------------------------------------------------------------
(* Outcomes of a call, requests and responses *)

Pending == [kind |-> "pending"]

None == [kind |-> "none"]

\* the promise resolves with v
Ok(v) == [kind |-> "ok", value |-> v]

\* throw new Error(msg)
Throw(msg) == [kind |-> "error", name |-> "Error", message |-> msg]

\* what reading a property of undefined or null throws
TypeError == [kind |-> "error", name |-> "TypeError", message |-> ""]

\* the object literal {uuid, id} and a Session with its optional token
Obj(uuid, id, token) == [uuid |-> uuid, id |-> id, token |-> token]

Req(method, url, cookie, body) ==
    [method |-> method, url |-> url, cookie |-> cookie, body |-> body]

\* what axios hands over: the response of the portal, or an error that has
\* no response (the request never got an answer)
Resp(status, location, setCookie, data) ==
    [t |-> "response", status |-> status, location |-> location,
     setCookie |-> setCookie, data |-> data]

NetErr == [t |-> "neterr"]

NoResp == [t |-> "none"]

\* axios resolves on validateStatus (2xx) and rejects otherwise; with
\* maxRedirects: 0 a 3xx is not followed and is rejected like any other
Is2xx(resp) == resp.t = "response" /\ resp.status >= 200 /\ resp.status < 300

Is3xx(resp) == resp.t = "response" /\ resp.status >= 300 /\ resp.status < 400

Languages == {"fi-FI", "sv-SE", "en-GB", "da-DK"}

IndexUrl == "https://tarjouspalvelu.fi/Default/Index"

Origin == "https://tarjouspalvelu.fi/"

----------------------------------------------------------------------------
(* The portal: what it may answer to each request of the library.  It     *)
(* keeps one culture per session it knows, names that culture in the      *)
(* script of every page it renders and in the culture cookie of the       *)
(* redirect that answers a language change; everything else it answers    *)
(* is unconstrained.                                                      *)

\* response.data: the raw text that the regular expressions search, and
\* the attributes cheerio selects
Page(html, eventValidation, viewState, modifyHref) ==
    [html |-> html, eventValidation |-> eventValidation,
     viewState |-> viewState, modifyHref |-> modifyHref]

BlankPage == Page("", Undefined, Undefined, Undefined)

\* a page with the elements that a selector of cheerio finds in it, in
\* document order; a page without the field has no such element
With(page, field, elements) ==
    [f \in DOMAIN page \cup {field} |-> IF f = field THEN elements ELSE page[f]]

Select(page, field) == IF field \in DOMAIN page THEN page[field] ELSE <<>>

\* a td of the index page: its style and colspan attributes, the src of its
\* first img, the href of its first a, the text of its first p
Cell(style, colspan, src, href, p) ==
    [style |-> style, colspan |-> colspan, src |-> src, href |-> href, p |-> p]

\* the cells the index page is made of: a company, spacers, a cell with
\* empty attributes, companies with a part missing or not numeric
IndexCells ==
    {Cell(Str("width:25%"), Undefined, Str("/Default/Image/13"),
          Str("https://tarjouspalvelu.fi/helsinki"), "Helsingin kaupunki"),
     Cell(Str("width:25%"), Undefined, Str("/Default/Image/42"),
          Str("https://tarjouspalvelu.fi/acme"), "Acme Oy"),
     Cell(Undefined, Undefined, Undefined, Undefined, ""),
     Cell(Str("width:100%"), Str("4"), Undefined, Undefined, ""),
     Cell(Str(""), Undefined, Str("/Default/Image/7"),
          Str("https://tarjouspalvelu.fi/espoo"), "Espoo"),
     Cell(Str("width:25%"), Str(""), Str("/Default/Image/8"),
          Str("https://tarjouspalvelu.fi/vantaa"), "Vantaa"),
     Cell(Str("width:25%"), Undefined, Str("/Default/Image/logo"),
          Str("https://tarjouspalvelu.fi/turku"), "Turku"),
     Cell(Str("width:25%"), Undefined, Str("/Default/Image/-5"),
          Str("https://tarjouspalvelu.fi/oulu"), "Oulu"),
     Cell(Str("width:25%"), Undefined, Undefined,
          Str("https://tarjouspalvelu.fi/pori"), "Pori"),
     Cell(Str("width:25%"), Undefined, Str("/Default/Image/"),
          Str("https://tarjouspalvelu.fi/kemi"), "Kemi"),
     Cell(Str("width:25%"), Undefined, Str("/Default/Image/9"),
          Str("https://tarjouspalvelu.fi/"), "Lahti"),
     Cell(Str("width:25%"), Undefined, Str("/Default/Image/10"), Undefined, "Kotka")}

\* a piece of the description cell of a DPS row: a text node or an element
\* (div, span) with its class attribute and its text
Seg(tag, class, text) == [tag |-> tag, class |-> class, text |-> text]

\* a tr of the DPS table, by the cells that getNotices reads: the texts of
\* td 0, 1, 2 and 4, the pieces of td 3, the href of the link of td 6
DpsRow(td0, td1, td2, td3, td4, href) ==
    [td0 |-> td0, td1 |-> td1, td2 |-> td2, td3 |-> td3, td4 |-> td4, href |-> href]

\* a tr of the notice table: the texts of td 0, 1 and 4; of td 2 the src of
\* each img, the text of the link and of each span; of td 3 the text and
\* the colour of the span; the href of the link of td 6
NoticeRow(td0, td1, icons, link, types, desc, color, td4, href) ==
    [td0 |-> td0, td1 |-> td1, icons |-> icons, link |-> link, types |-> types,
     desc |-> desc, color |-> color, td4 |-> td4, href |-> href]

\* how the portal prints 31 December 2021, 10 o'clock, in each culture
PortalDate(c) ==
    CASE c = "fi-FI" -> "31.12.2021 10:00:00"
      [] c = "sv-SE" -> "2021-12-31 10:00:00"
      [] c = "en-GB" -> "31/12/2021 10:00:00"
      [] c = "da-DK" -> "31-12-2021 10:00:00"

\* DPS rows: a plain one, one without a deadline, one with a deadline that
\* is no date, rows in correction with the marker before or after the
\* description, with and without blanks around it, a row without a link
\* and one whose link has no numeric tpID
DpsRows(c) ==
    LET plain == <<Seg("text", Undefined, " Kalusteet ")>>
        link == Str("tpTiedot.aspx?p=13&g=u1&tpID=77")
    IN {DpsRow(" Hankinnat ", " D-1 ", " Kalusteet 2021 ", plain, PortalDate(c), link),
        DpsRow("Hankinnat", "D-2", "Kalusteet 2021", plain, " ", link),
        DpsRow("Hankinnat", "D-3", "Kalusteet 2021", plain, "jatkuva", link),
        DpsRow("Hankinnat", "D-4", "Kalusteet 2021",
               <<Seg("div", Str("punainenfontti"), "Korjattavana"),
                 Seg("text", Undefined, " Kalusteet ")>>, PortalDate(c), link),
        DpsRow("Hankinnat", "D-5", "Kalusteet 2021",
               <<Seg("div", Str("punainenfontti"), " Korjattavana "),
                 Seg("text", Undefined, "Kalusteet")>>, PortalDate(c), link),
        DpsRow("Hankinnat", "D-6", "Kalusteet 2021",
               <<Seg("text", Undefined, "Kalusteet "),
                 Seg("div", Str("punainenfontti"), "Korjattavana ")>>, PortalDate(c), link),
        DpsRow("Hankinnat", "D-7", "Kalusteet 2021", plain, PortalDate(c), Undefined),
        DpsRow("Hankinnat", "D-8", "Kalusteet 2021", plain, PortalDate(c),
               Str("tpTiedot.aspx?p=13&g=u1&tpID=abc"))}

\* notice rows: a plain one, rows with the icon of the second naming, with
\* an icon of neither naming, with an img without src, with two icons, a row
\* without a deadline, with a deadline that is no date, a row whose link has
\* no numeric tpID and one without a link
NoticeRows(c) ==
    LET hilma == <<Str("/images/ikoni_hilma.gif")>>
        link == Str("tpTiedot.aspx?p=13&g=u1&tpID=7")
        Row(id, icons, td4, href) ==
            NoticeRow(id, " Hankinnat ", icons, " Hankinnat / Tietyöt ", <<"Urakka">>,
                      " Teiden korjaus ", Undefined, td4, href)
    IN {Row(" N-1 ", hilma, PortalDate(c), link),
        Row("N-2", <<Str("/images/pienhankinta_ikoni.png")>>, PortalDate(c), link),
        Row("N-3", <<Str("/images/uusi.png")>>, PortalDate(c), link),
        Row("N-4", <<Undefined>>, PortalDate(c), link),
        Row("N-5", <<Str("/images/ikoni_hilma.gif"), Str("/images/ikoni_eu.gif")>>,
            PortalDate(c), link),
        Row("N-6", hilma, " ", link),
        Row("N-7", hilma, "jatkuva", link),
        Row("N-8", hilma, PortalDate(c), Str("tpTiedot.aspx?p=13&g=u1&tpID=")),
        Row("N-9", hilma, PortalDate(c), Undefined),
        NoticeRow("Hankinnat", "Hankinnat", <<>>, "Hankinnat / Tietyöt", <<>>,
                  "Teiden korjaus", Str("red"), PortalDate(c), link)}

MaxRows == 2

\* the tables of the notices page: up to MaxRows rows in one of the two
\* tables, or a row in each
NoticesTables(c) ==
    {With(With(BlankPage, "dps", rows), "notices", <<>>) :
       rows \in UNION {[1..n -> DpsRows(c)] : n \in 0..MaxRows}}
    \cup {With(With(BlankPage, "dps", <<>>), "notices", rows) :
            rows \in UNION {[1..n -> NoticeRows(c)] : n \in 1..MaxRows}}
    \cup {With(With(BlankPage, "dps", <<d>>), "notices", <<n>>) :
            d \in DpsRows(c), n \in NoticeRows(c)}

MaxCells == 2

\* GET /Default/Index: redirects are followed, so what comes back is a page
\* of up to MaxCells cells, a server error or nothing
PortalIndex ==
    {NetErr, Resp(500, Undefined, Undefined, BlankPage)}
    \cup {Resp(200, Undefined, Undefined, With(BlankPage, "cells", cells)) :
            cells \in UNION {[1..n -> IndexCells] : n \in 0..MaxCells}}

CultureScript(c) ==
    "<script>var __cultureInfo = {\"name\":\"" \o c \o "\",\"numberFormat\":{}};</script>"

HankOrgInput(v) ==
    "<input id=\"ctl00_PageContent_HankOrgIdHidden\" value=\"" \o v \o "\" />"

\* the session the portal reads out of the Cookie header of a request
PortalSessionId(req) == Match(req.cookie, "ASP.NET_SessionId_TP=", ";")

PortalKnows(req) ==
    /\ PortalSessionId(req).t = "string"
    /\ PortalSessionId(req).v \in DOMAIN culture

PortalCulture(req) == culture[PortalSessionId(req).v]

\* answers that carry no page: no answer at all, a server error, a redirect
\* (the portal's own 302, and a 301 as any other 3xx)
PortalFailures ==
    {NetErr,
     Resp(500, Undefined, Undefined, BlankPage),
     Resp(302, Str("/Default/Index"), Undefined, BlankPage),
     Resp(301, Str("/Default/Index"), Undefined, BlankPage)}

\* Location headers of the slug route
SlugLocations ==
    {Undefined,
     Str(IndexUrl),
     Str("/default.aspx?p=13&g=u1"),
     Str("/default.aspx?g=u1&p=13"),
     Str("/default.aspx?p=&g="),
     Str("/default.aspx?p=x13&g=u1"),
     Str("/default.aspx?g=u1")}

\* Set-Cookie headers of the slug route
SlugCookies ==
    {Undefined,
     Arr(<<"ASP.NET_SessionId_TP=s1; path=/; HttpOnly">>),
     Arr(<<"tarjouspalvelu.fi=culture=fi-FI&Expires=1; path=/",
           "ASP.NET_SessionId_TP=s1; path=/; HttpOnly">>),
     Arr(<<"ASP.NET_SessionId_TP=; path=/">>),
     Arr(<<"tarjouspalvelu.fi=culture=fi-FI&Expires=1">>)}

\* HEAD /<slug>
PortalHead(req) ==
    {NetErr, Resp(200, Undefined, Undefined, BlankPage),
     Resp(404, Undefined, Undefined, BlankPage)}
    \cup {Resp(302, loc, sc, BlankPage) : loc \in SlugLocations, sc \in SlugCookies}
    \cup {Resp(301, Str(IndexUrl), Undefined, BlankPage),
          Resp(301, Str("/default.aspx?p=13&g=u1"),
               Arr(<<"ASP.NET_SessionId_TP=s1; path=/; HttpOnly">>), BlankPage)}

\* the pages of the portal, by the route that renders them and by what is
\* read from them: of the notices page getSessionLanguage reads the culture
\* only ("notices"), getNotices the two tables ("listing")
PortalPages(kind, c) ==
    CASE kind = "index" ->
           {Page(CultureScript(c) \o HankOrgInput(v), Str("EV"), Str("VS"), Undefined) :
              v \in {"14", ""}}
           \cup {Page(CultureScript(c), Str("EV"), Str("VS"), Undefined)}
      [] kind = "tenders" ->
           {Page(CultureScript(c), Str("EV"), Str("VS"), h) :
              h \in {Undefined,
                     Str(""),
                     Str("TarjouksenMuokkaus.aspx?p=13&g=u1&tarjID=555"),
                     Str("TarjouksenMuokkaus.aspx?tarjID=555&p=13&g=u1"),
                     Str("TarjouksenMuokkaus.aspx?p=13&g=u1")}}
      [] kind = "processing" ->
           {With(With(Page(CultureScript(c), Undefined, Undefined, Undefined),
                      "icons", icons), "types", <<"Urakka">>) :
              icons \in {<<>>, <<Str("/images/ikoni_hilma.gif")>>,
                         <<Str("/images/pienhankinta_ikoni.png")>>,
                         <<Str("/images/uusi.png")>>}}
      [] kind = "details" ->
           {With(BlankPage, "details",
                 [valHankTunniste |-> "N-1", valIlmPaiva |-> PortalDate(c),
                  valDueDate |-> due, valHankYksMarkNimi |-> "Hankinnat",
                  valHankNimi |-> "Tietyöt", valKuvaus |-> "<p>Teiden korjaus</p>",
                  valHankYksLuo |-> "Kunta", valHankLaj |-> "Urakka"]) :
              due \in {"", PortalDate(c) \o "  (UTC+2)", PortalDate(c) \o " (EET)",
                       "jatkuva"}}
      [] kind = "attachments" ->
           {With(With(BlankPage, "files",
                      <<[text |-> "tarjouspyynto.pdf",
                         href |-> Str("../Document/Open/?fileType=TarjPyynTied&id=f1")]>>),
                 "links", <<Str("https://example.org/liite"), Undefined>>)}
      [] kind = "listing" ->
           {[pg EXCEPT !.html = CultureScript(c)] : pg \in NoticesTables(c)}
      [] OTHER ->
           {Page(CultureScript(c), Str("EV"), Str("VS"), Undefined)}

\* GET of a page with a session: a session the portal knows may get the
\* page, rendered in its culture; any session may get a page without
\* content or no page
PortalGet(req, kind) ==
    PortalFailures
    \cup {Resp(200, Undefined, Undefined, BlankPage)}
    \cup (IF PortalKnows(req)
          THEN {Resp(200, Undefined, Undefined, pg) :
                  pg \in PortalPages(kind, PortalCulture(req))}
          ELSE {})

\* Set-Cookie headers of the answer to a login
LoginCookies ==
    {Undefined,
     Arr(<<"TarjPalv=t1; path=/; HttpOnly">>),
     Arr(<<"TarjPalv=t2; path=/; HttpOnly">>),
     Arr(<<"TarjPalv=; path=/">>),
     Arr(<<"TarjPalv=t1">>),
     Arr(<<"TarjPalv=t1", "tarjouspalvelu.fi=culture=fi-FI&Expires=1; path=/">>),
     Arr(<<"tarjouspalvelu.fi=culture=fi-FI&Expires=1; path=/">>)}

\* POST of the login form
PortalLogin(req) ==
    {NetErr, Resp(200, Undefined, Undefined, BlankPage),
     Resp(500, Undefined, Undefined, BlankPage)}
    \cup {Resp(st, Str("/default.aspx"), sc, BlankPage) :
            st \in {301, 302}, sc \in LoginCookies}

\* the marker that removeTender looks for in the body
ErrorMarker == "{\"error\":true}"

\* bodies of the answer to a removal: nothing, a page, the marker within a
\* page, and the JSON texts of a removal that failed and of one that was made
RemovalBodies ==
    {"", "<html>OK</html>", "<html>" \o ErrorMarker \o "</html>",
     ErrorMarker, "{\"error\":false}", "\"OK\"", "true", "1"}

\* POST of a removal: redirects are followed, so what comes back is the
\* last answer, a server error or nothing
PortalRemove(req) ==
    {NetErr, Resp(500, Undefined, Undefined, BlankPage)}
    \cup {Resp(200, Undefined, Undefined, Page(body, Undefined, Undefined, Undefined)) :
            body \in RemovalBodies}

CultureCookie(c) ==
    Arr(<<"tarjouspalvelu.fi=culture=" \o c \o "&Expires=1; path=/">>)

\* the language that an event target of the language form selects
PortalTarget(target) ==
    CASE target = "ctl00$header$Kieli_fiFI" -> "fi-FI"
      [] target = "ctl00$header$Kieli_svSE" -> "sv-SE"
      [] target = "ctl00$header$Kieli_enGB" -> "en-GB"
      [] target = "ctl00$header$LinkButton1" -> "da-DK"

\* POST of the language form: pairs <<answer, culture of the session after
\* it>>.  The portal applies the change or silently does not; a redirect
\* names the culture the session then has; an answer may get lost after
\* the change was applied.
PortalLanguage(req) ==
    IF ~PortalKnows(req)
    THEN {<<r, culture>> :
            r \in PortalFailures \cup {Resp(200, Undefined, Undefined, BlankPage)}}
    ELSE LET id == PortalSessionId(req).v
             old == culture[id]
             new == PortalTarget(req.body[3][2])
             applied == [culture EXCEPT ![id] = new]
         IN {<<r, culture>> :
               r \in {NetErr, Resp(200, Undefined, Undefined, BlankPage),
                      Resp(500, Undefined, Undefined, BlankPage),
                      Resp(302, Str("/default.aspx"), Undefined, BlankPage)}
                     \cup {Resp(st, Str("/default.aspx"), CultureCookie(old), BlankPage) :
                             st \in {301, 302}}}
            \cup {<<r, applied>> :
                    r \in {NetErr}
                          \cup {Resp(st, Str("/default.aspx"), CultureCookie(new), BlankPage) :
                                  st \in {301, 302}}}

----------------------------------------------------------------------------
(* utilities.ts *)

\* matchLocale that falls out of the switch without a throw
matchLocale_noDefault(html) ==
    LET locale == Match(html, "__cultureInfo = {\"name\":\"", "\",\"")
    IN IF locale = Null THEN Throw("Failed to match the locale")
       ELSE IF locale.v \in Languages THEN Ok(Str(locale.v))
       ELSE Ok(Undefined)

\* the switch of matchLocale over the captured culture name
matchLocale(html) ==
    LET locale == Match(html, "__cultureInfo = {\"name\":\"", "\",\"")
    IN IF locale = Null THEN Throw("Failed to match the locale")
       ELSE IF locale.v \in Languages THEN Ok(Str(locale.v))
       ELSE Throw("Failed to match the locale")

\* boolFromYesOrNo that compares the text as it is
boolFromYesOrNo_caseSensitive(text) ==
    IF text \in {"kyllä", "ja", "yes"} THEN Ok(Bool(TRUE))
    ELSE IF text \in {"ei", "nej", "no"} THEN Ok(Bool(FALSE))
    ELSE Throw("Failed to form a boolean from the given text")

\* the switch of boolFromYesOrNo over the lower-cased text
boolFromYesOrNo(text) ==
    IF toLowerCase(text) \in {"kyllä", "ja", "yes"} THEN Ok(Bool(TRUE))
    ELSE IF toLowerCase(text) \in {"ei", "nej", "no"} THEN Ok(Bool(FALSE))
    ELSE Throw("Failed to form a boolean from the given text")

\* a token of a date-fns format: a numeric field of at most `digits`
\* digits, or the literal text between two fields
Fld(field, digits) == [field |-> field, digits |-> digits, lit |-> ""]

Lit(lit) == [field |-> "", digits |-> 0, lit |-> lit]

TimeTokens ==
    <<Lit(" "), Fld("H", 2), Lit(":"), Fld("m", 2), Lit(":"), Fld("s", 2)>>

\* the date format of each language in parseLocalizedDate
dateFormatTable(locale) ==
    CASE locale = "fi-FI" ->
           <<Fld("d", 2), Lit("."), Fld("M", 2), Lit("."), Fld("y", 4)>> \o TimeTokens
      [] locale = "sv-SE" ->
           <<Fld("y", 4), Lit("-"), Fld("M", 2), Lit("-"), Fld("d", 2)>> \o TimeTokens
      [] locale = "en-GB" ->
           <<Fld("d", 2), Lit("/"), Fld("M", 2), Lit("/"), Fld("y", 4)>> \o TimeTokens
      [] locale = "da-DK" ->
           <<Fld("d", 2), Lit("-"), Fld("M", 2), Lit("-"), Fld("y", 4)>> \o TimeTokens

InvalidDate == [t |-> "invalidDate"]

\* the fields that the tokens read off the text, in the order of the
\* format; ok is FALSE when a token does not match or text is left over
RECURSIVE ParseTokens(_, _)
ParseTokens(s, format) ==
    IF Len(format) = 0 THEN [ok |-> Len(s) = 0, fields |-> <<>>]
    ELSE IF format[1].digits = 0
    THEN IF Len(s) >= Len(format[1].lit)
            /\ SubSeq(s, 1, Len(format[1].lit)) = format[1].lit
         THEN ParseTokens(Substr(s, Len(format[1].lit)), Tail(format))
         ELSE [ok |-> FALSE, fields |-> <<>>]
    ELSE LET Least(found, digits) == IF found < digits THEN found ELSE digits
             Field(n, rest) ==
                 [ok |-> rest.ok,
                  fields |-> <<<<format[1].field, DecimalValue(SubSeq(s, 1, n))>>>>
                               \o rest.fields]
             Read(n) ==
                 IF n = 0 THEN [ok |-> FALSE, fields |-> <<>>]
                 ELSE Field(n, ParseTokens(Substr(s, n), Tail(format)))
         IN Read(Least(Len(DigitPrefix(s)), format[1].digits))

DaysInMonth(y, M) ==
    IF M = 2
    THEN (IF (y % 4 = 0 /\ y % 100 # 0) \/ y % 400 = 0 THEN 29 ELSE 28)
    ELSE IF M \in {4, 6, 9, 11} THEN 30 ELSE 31

\* parse(date, format, new Date()) of date-fns: the local time the text
\* names, the Invalid Date when the text does not follow the format or
\* names no time
parse(date, format) ==
    LET Time(fields) ==
            [f \in {"y", "M", "d", "H", "m", "s"} |->
               (CHOOSE p \in {fields[i] : i \in 1..Len(fields)} : p[1] = f)[2]]
        Local(v) ==
            IF /\ v["M"] \in 1..12
               /\ v["d"] \in 1..DaysInMonth(v["y"], v["M"])
               /\ v["H"] \in 0..23 /\ v["m"] \in 0..59 /\ v["s"] \in 0..59
            THEN [t |-> "date", zone |-> "local", time |-> v]
            ELSE InvalidDate
        Read(r) == IF ~r.ok THEN InvalidDate ELSE Local(Time(r.fields))
    IN Read(ParseTokens(date, format))

\* zonedTimeToUtc(date, 'Europe/Helsinki') of date-fns-tz ^1.0.12: the
\* instant at which the clocks of Helsinki show the local time of `date`.
\* Of an Invalid Date the releases in that range either make an Invalid
\* Date again (lenient) or throw the RangeError of the formatter.
zonedTimeToUtc(date, lenient) ==
    IF date = InvalidDate
    THEN (IF lenient THEN Ok(InvalidDate) ELSE Throw("Invalid time value"))
    ELSE Ok([t |-> "date", zone |-> "Europe/Helsinki", time |-> date.time])

parseLocalizedDate(date, locale, lenient) ==
    zonedTimeToUtc(parse(date, dateFormatTable(locale)), lenient)

SlugUrl(slug) == Origin \o slug

\* the .catch of companySlugToId: the outcome of the handler, an id when it
\* assigns one
companySlugToId_catch(error) ==
    IF error.t = "neterr" THEN TypeError
    ELSE IF error.location = Str(IndexUrl) THEN Throw("Invalid company slug")
    ELSE IF error.location = Undefined THEN TypeError
    ELSE LET p == QsGet(Substr(error.location.v, 14), "p")
         IN IF p = Undefined THEN TypeError
            ELSE Ok(parseInt(ToStringOf(p)))

\* companySlugToId after the await: id is the declared, unassigned variable
\* when the request was fulfilled
companySlugToId_return(resp) ==
    IF Is2xx(resp) THEN Ok(Undefined) ELSE companySlugToId_catch(resp)

\* getSession_catch with the index page compared by its path
getSession_catch_relativeIndex(error) ==
    IF error.t = "neterr" THEN TypeError
    ELSE IF error.location = Str("/Default/Index") THEN Throw("Invalid company slug")
    ELSE LET g == IF error.location = Undefined THEN Undefined
                  ELSE QsGet(error.location.v, "g")
         IN IF g = Undefined THEN TypeError
            ELSE IF error.setCookie = Undefined THEN TypeError
            ELSE LET m == Match(Join(error.setCookie.v, ""), "SessionId_TP=", ";")
                 IN IF m = Null THEN TypeError
                    ELSE Ok(Obj(Str(ToStringOf(g)), m, Undefined))

\* the .catch of getSession
getSession_catch(error) ==
    IF error.t = "neterr" THEN TypeError
    ELSE IF error.location = Str(IndexUrl) THEN Throw("Invalid company slug")
    ELSE LET g == IF error.location = Undefined THEN Undefined
                  ELSE QsGet(error.location.v, "g")
         IN IF g = Undefined THEN TypeError
            ELSE IF error.setCookie = Undefined THEN TypeError
            ELSE LET m == Match(Join(error.setCookie.v, ""), "SessionId_TP=", ";")
                 IN IF m = Null THEN TypeError
                    ELSE Ok(Obj(Str(ToStringOf(g)), m, Undefined))

\* getSession after the await: the literal {uuid, id}
getSession_return(resp) ==
    IF Is2xx(resp) THEN Ok(Obj(Undefined, Undefined, Undefined))
    ELSE getSession_catch(resp)

SessionCookie(s) == "ASP.NET_SessionId_TP=" \o ToStr(s.id) \o ";"

TokenCookie(s) ==
    "ASP.NET_SessionId_TP=" \o ToStr(s.id) \o "; TarjPalv=" \o ToStr(s.token) \o ";"

DefaultUrl(companyId, s) ==
    Origin \o "default.aspx?p=" \o NumToStr(companyId) \o "&g=" \o ToStr(s.uuid)

NoticesUrl(companyId, s) ==
    Origin \o "tarjouspyynnot.aspx?p=" \o NumToStr(companyId) \o "&g=" \o ToStr(s.uuid)

\* form fields are the value attributes, '' when the input is missing
FormField(v) == IF v = Undefined THEN "" ELSE v.v

\* the first request of loginToSession and of setSessionLanguage
IndexGet(companyId, s) == Req("GET", DefaultUrl(companyId, s), SessionCookie(s), <<>>)

\* IndexGet_catch with the message of the notices page
IndexGet_catch_pageMessage(error) == Throw("Failed to load page, bad session?")

\* the .catch of the GET of loginToSession and of setSessionLanguage
IndexGet_catch(error) == Throw("Failed to load index page, bad session?")

loginToSession_post(companyId, username, password, s, data) ==
    Req("POST", DefaultUrl(companyId, s), SessionCookie(s),
        <<<<"__EVENTVALIDATION", FormField(data.eventValidation)>>,
          <<"__VIEWSTATE", FormField(data.viewState)>>,
          <<"ctl00$header$LoginView1$LoginCtrl$UserName", username>>,
          <<"ctl00$header$LoginView1$LoginCtrl$Password", password>>,
          <<"ctl00$header$LoginView1$LoginCtrl$btnLogin", "Sisään">>>>)

\* loginToSession_catch that reads the cookie and assigns nothing
loginToSession_catch_noAssignment(token, error) ==
    IF error.t = "neterr" THEN [out |-> TypeError, token |-> token]
    ELSE IF error.status = 302
    THEN IF error.setCookie = Undefined THEN [out |-> TypeError, token |-> token]
         ELSE LET m == Match(Join(error.setCookie.v, ""), "TarjPalv=", ";")
              IN IF m = Null THEN [out |-> TypeError, token |-> token]
                 ELSE [out |-> None, token |-> token]
    ELSE [out |-> None, token |-> token]

\* the .catch of the POST of loginToSession: [out, token], the outcome of
\* the handler (None when it returns) and session.token after it
loginToSession_catch(token, error) ==
    IF error.t = "neterr" THEN [out |-> TypeError, token |-> token]
    ELSE IF error.status = 302
    THEN IF error.setCookie = Undefined THEN [out |-> TypeError, token |-> token]
         ELSE LET m == Match(Join(error.setCookie.v, ""), "TarjPalv=", ";")
              IN IF m = Null THEN [out |-> TypeError, token |-> token]
                 ELSE [out |-> None, token |-> m]
    ELSE [out |-> None, token |-> token]

\* the end of loginToSession: the check of session.token and the return of
\* the session that was passed in
loginToSession_return(o, token) ==
    IF Falsy(token) THEN Throw("Failed to log in, bad username/password?")
    ELSE Ok(Ref(o))

languageTable(language) ==
    CASE language = "fi-FI" -> "ctl00$header$Kieli_fiFI"
      [] language = "sv-SE" -> "ctl00$header$Kieli_svSE"
      [] language = "en-GB" -> "ctl00$header$Kieli_enGB"
      [] language = "da-DK" -> "ctl00$header$LinkButton1"

setSessionLanguage_post(companyId, language, s, data) ==
    Req("POST", DefaultUrl(companyId, s), SessionCookie(s) \o " tarjouspalvelu.fi=;",
        <<<<"__EVENTVALIDATION", FormField(data.eventValidation)>>,
          <<"__VIEWSTATE", FormField(data.viewState)>>,
          <<"__EVENTTARGET", languageTable(language)>>>>)

\* setSessionLanguage_catch without the comparison of the languages
setSessionLanguage_catch_noComparison(language, error) ==
    IF error.t = "neterr" THEN TypeError
    ELSE IF error.status = 302
    THEN IF error.setCookie = Undefined THEN TypeError
         ELSE LET setLanguage == Match(Join(error.setCookie.v, ""), "culture=", "&Expires")
              IN IF setLanguage = Null THEN TypeError ELSE None
    ELSE None

\* the .catch of the POST of setSessionLanguage: the outcome of the handler
setSessionLanguage_catch(language, error) ==
    IF error.t = "neterr" THEN TypeError
    ELSE IF error.status = 302
    THEN IF error.setCookie = Undefined THEN TypeError
         ELSE LET setLanguage == Match(Join(error.setCookie.v, ""), "culture=", "&Expires")
              IN IF setLanguage = Null THEN TypeError
                 ELSE IF Str(language) = setLanguage THEN None
                 ELSE Throw("Response has an unexpected language")
    ELSE None

\* setSessionLanguage after the await of the POST
setSessionLanguage_return(o, language, resp) ==
    LET caught == IF Is2xx(resp) THEN None ELSE setSessionLanguage_catch(language, resp)
    IN IF caught = None THEN Ok(Ref(o)) ELSE caught

\* Page_catch that does not look at the status
Page_catch_anyStatus(badSession, other, error) ==
    IF error.t = "neterr" THEN TypeError ELSE Throw(other)

\* the .catch of a page GET that tells a 302 from the other failures
Page_catch(badSession, other, error) ==
    IF error.t = "neterr" THEN TypeError
    ELSE IF error.status = 302 THEN Throw(badSession)
    ELSE Throw(other)

getSessionLanguage_get(companyId, s) ==
    Req("GET", NoticesUrl(companyId, s), TokenCookie(s), <<>>)

getSessionLanguage_return(resp) ==
    IF Is2xx(resp) THEN matchLocale(resp.data.html)
    ELSE Page_catch("Failed to load page, bad session?", "Failed to load page", resp)

----------------------------------------------------------------------------
(* company.ts, notice.ts, tender.ts: the page fetches *)

getCompanyProcurementOrganizationId_get(companyId, s) ==
    Req("GET", DefaultUrl(companyId, s), SessionCookie(s), <<>>)

getCompanyProcurementOrganizationId_return(resp) ==
    IF Is2xx(resp)
    THEN LET id == Match(resp.data.html, "HankOrgIdHidden\" value=\"", "\" />")
         IN IF id = Null THEN TypeError ELSE Ok(parseInt(id.v))
    ELSE Page_catch("Failed to load page, bad session?", "Failed to load page", resp)

(* company.ts *)

Company(id, slug, name) == [id |-> id, slug |-> slug, name |-> name]

\* getCompanies_loop without the colspan check
RECURSIVE getCompanies_loop_noColspan(_, _, _)
getCompanies_loop_noColspan(companiesTable, i, companies) ==
    IF i > Len(companiesTable) THEN Ok(Arr(companies))
    ELSE LET cell == companiesTable[i]
             id == IF cell.src = Undefined THEN Undefined
                   ELSE Str(Substr(cell.src.v, 15))
             slug == IF cell.href = Undefined THEN Undefined
                     ELSE Str(Substr(cell.href.v, 26))
         IN IF Falsy(cell.style)
            THEN getCompanies_loop_noColspan(companiesTable, i + 1, companies)
            ELSE IF Falsy(id) THEN Throw("Failed getting company id")
            ELSE IF Falsy(slug) THEN Throw("Failed getting company slug")
            ELSE getCompanies_loop_noColspan(companiesTable, i + 1,
                     Append(companies, Company(parseInt(id.v), slug, Str(cell.p))))

\* the loop of getCompanies over the cells from cell i on, `companies`
\* being the records pushed so far
RECURSIVE getCompanies_loop(_, _, _)
getCompanies_loop(companiesTable, i, companies) ==
    IF i > Len(companiesTable) THEN Ok(Arr(companies))
    ELSE LET cell == companiesTable[i]
             id == IF cell.src = Undefined THEN Undefined
                   ELSE Str(Substr(cell.src.v, 15))
             slug == IF cell.href = Undefined THEN Undefined
                     ELSE Str(Substr(cell.href.v, 26))
         IN IF Falsy(cell.style) THEN getCompanies_loop(companiesTable, i + 1, companies)
            ELSE IF ~Falsy(cell.colspan)
            THEN getCompanies_loop(companiesTable, i + 1, companies)
            ELSE IF Falsy(id) THEN Throw("Failed getting company id")
            ELSE IF Falsy(slug) THEN Throw("Failed getting company slug")
            ELSE getCompanies_loop(companiesTable, i + 1,
                     Append(companies, Company(parseInt(id.v), slug, Str(cell.p))))

\* an axios request without a .catch: the error of axios is the outcome
axios_error(error) ==
    IF error.t = "neterr" THEN Throw("Network Error")
    ELSE Throw("Request failed with status code " \o NumToStr(error.status))

getCompanies_get == Req("GET", IndexUrl, "", <<>>)

getCompanies_return(resp) ==
    IF Is2xx(resp) THEN getCompanies_loop(Select(resp.data, "cells"), 1, <<>>)
    ELSE axios_error(resp)

\* getNotices_get with the cookie header of the operations that need a login
getNotices_get_withToken(companyId, s) ==
    Req("GET", NoticesUrl(companyId, s), TokenCookie(s), <<>>)

getNotices_get(companyId, s) ==
    Req("GET", NoticesUrl(companyId, s), SessionCookie(s), <<>>)

\* the Notices object
Notices(dynamicPurchasingSystems, notices, language) ==
    [dynamicPurchasingSystems |-> dynamicPurchasingSystems,
     notices |-> notices, language |-> language]

\* parseInt(querystring.parse(href || '').tpID.toString())
linkId(href) ==
    LET Id(tpID) == IF tpID = Undefined THEN TypeError ELSE Ok(parseInt(ToStringOf(tpID)))
    IN Id(QsGet(IF Falsy(href) THEN "" ELSE href.v, "tpID"))

Texts(segs) == Join([i \in 1..Len(segs) |-> segs[i].text], "")

\* the object pushed for a row of the DPS table; the properties are
\* evaluated in the order they are written in, the first throw is the
\* outcome
getNotices_dps(row, locale, lenient) ==
    LET First(divs) == Len(divs) > 0 /\ divs[1].class = Str("punainenfontti")
        marked == SelectSeq(row.td3,
                    LAMBDA s : /\ s.class # Undefined
                               /\ \E k \in DOMAIN Split(s.class.v, " ") :
                                    Split(s.class.v, " ")[k] = "punainenfontti")
        Object(shortDescription, isBeingCorrected, id, deadline, originalDeadline) ==
            IF id.kind = "error" THEN id
            ELSE IF deadline.kind = "error" THEN deadline
            ELSE Ok([id |-> id.value,
                     customId |-> Str(Trim(row.td1)),
                     unit |-> Str(Trim(row.td0)),
                     title |-> Str(Trim(row.td2)),
                     shortDescription |-> Str(shortDescription),
                     isBeingCorrected |-> Bool(isBeingCorrected),
                     additionalDesc |->
                         IF isBeingCorrected
                         THEN Str(Trim(ReplaceFirst(shortDescription, Texts(marked), "")))
                         ELSE Undefined,
                     deadline |-> deadline.value,
                     originalDeadline |-> Str(originalDeadline)])
        Dates(shortDescription, isBeingCorrected, text) ==
            Object(shortDescription, isBeingCorrected, linkId(row.href),
                   parseLocalizedDate(text, locale, lenient), text)
    IN Dates(Trim(Texts(row.td3)),
             First(SelectSeq(row.td3, LAMBDA s : s.tag = "div")),
             Trim(row.td4))

\* the flag of an icon: the first pattern, then, where the code has it, the
\* pattern of the pienhankinta icon
flagOf(src, fallback) ==
    LET Second(first) ==
            IF Falsy(first) /\ fallback
            THEN (IF src = Undefined THEN Undefined
                  ELSE Match(src.v, "images/", "_ikoni"))
            ELSE first
        Flag(flag) ==
            IF flag \in {Undefined, Null} THEN Throw("Failed to parse flag image")
            ELSE Ok(flag)
    IN Flag(Second(IF src = Undefined THEN Undefined ELSE MatchIkoni(src.v)))

\* .map(...).get() over the icons: the first throw ends it
flagsOf(icons, fallback) ==
    LET Flags(mapped) ==
            IF \E i \in 1..Len(icons) : mapped[i].kind = "error"
            THEN Throw("Failed to parse flag image")
            ELSE Ok(Arr([i \in 1..Len(icons) |-> mapped[i].value]))
    IN Flags([i \in 1..Len(icons) |-> flagOf(icons[i], fallback)])

\* the object pushed for a row of the notice table
getNotices_notice(row, locale, lenient) ==
    LET Object(id, flags, deadline, originalDeadline) ==
            IF id.kind = "error" THEN id
            ELSE IF flags.kind = "error" THEN flags
            ELSE IF deadline.kind = "error" THEN deadline
            ELSE Ok([id |-> id.value,
                     customId |-> Str(Trim(row.td0)),
                     unit |-> Str(Trim(row.td1)),
                     flags |-> flags.value,
                     title |-> Str(ReplaceFirst(Trim(row.link), Trim(row.td0) \o " / ", "")),
                     types |-> Arr(row.types),
                     shortDescription |-> Str(Trim(row.desc)),
                     isBeingCorrected |-> Bool(row.color = Str("red")),
                     deadline |-> deadline.value,
                     originalDeadline |-> originalDeadline])
        Dates(text) ==
            Object(linkId(row.href), flagsOf(row.icons, TRUE),
                   IF Len(text) # 0 THEN parseLocalizedDate(text, locale, lenient)
                   ELSE Ok(Null),
                   IF Len(text) # 0 THEN Str(text) ELSE Null)
    IN Dates(Trim(row.td4))

\* a for loop of getNotices over the rows of a table from row i on,
\* `pushed` being the objects pushed so far
RECURSIVE getNotices_loop(_, _, _, _, _, _)
getNotices_loop(table, rows, i, pushed, locale, lenient) ==
    IF i > Len(rows) THEN Ok(pushed)
    ELSE LET Push(object) ==
                 IF object.kind = "error" THEN object
                 ELSE getNotices_loop(table, rows, i + 1, Append(pushed, object.value),
                                      locale, lenient)
         IN Push(IF table = "dps" THEN getNotices_dps(rows[i], locale, lenient)
                 ELSE getNotices_notice(rows[i], locale, lenient))

getNotices_return(resp, lenient) ==
    IF Is2xx(resp)
    THEN LET Object(locale, dps, notices) ==
                 IF dps.kind = "error" THEN dps
                 ELSE IF notices.kind = "error" THEN notices
                 ELSE Ok(Notices(dps.value, notices.value, locale))
             Rows(locale) ==
                 IF locale.kind = "error" THEN locale
                 ELSE Object(locale.value,
                             getNotices_loop("dps", Select(resp.data, "dps"), 1, <<>>,
                                             locale.value.v, lenient),
                             getNotices_loop("notices", Select(resp.data, "notices"), 1,
                                             <<>>, locale.value.v, lenient))
         IN Rows(matchLocale(resp.data.html))
    ELSE Page_catch("Failed to load notices, bad session?", "Failed to load notices", resp)

getNotice_get(route, query, noticeId, s) ==
    Req("GET",
        Origin \o "Tarjouspalvelu/" \o route \o query \o "g=" \o ToStr(s.uuid)
            \o "&tpID=" \o NumToStr(noticeId),
        TokenCookie(s), <<>>)

getNotice_processing(companyId, noticeId, s) ==
    getNotice_get("tpKasittely.aspx", "?p=" \o NumToStr(companyId) \o "&", noticeId, s)

getNotice_details(noticeId, s) == getNotice_get("tpReferal.aspx", "?", noticeId, s)

getNotice_attachments(noticeId, s) ==
    getNotice_get("TarjousPyyntoLiitteet.aspx", "?", noticeId, s)

getNotice_catch(error) ==
    Page_catch("Failed to load notice, bad session?", "Failed to load notice", error)

getTenderId_get(companyId, noticeId, s) ==
    Req("GET",
        Origin \o "Tarjouspalvelu/TarjouspyynnonTarjoukset.aspx?p=" \o NumToStr(companyId)
            \o "&g=" \o ToStr(s.uuid) \o "&tpID=" \o NumToStr(noticeId),
        TokenCookie(s), <<>>)

getTenderId_return(resp) ==
    IF Is2xx(resp)
    THEN LET link == resp.data.modifyHref
         IN IF Falsy(link) THEN Throw("No tenders in progress found")
            ELSE LET tarjID == QsGet(link.v, "tarjID")
                 IN IF tarjID = Undefined THEN TypeError
                    ELSE Ok(Str(ToStringOf(tarjID)))
    ELSE Page_catch("Failed to get the ID of the tender, bad session?",
                    "Failed to load tender", resp)

\* JSON.parse of the bodies the portal sends here: a one-member object
\* with a boolean value, a string, a number, true and false are JSON
\* texts; for any other text JSON.parse throws
JSONparse(text) ==
    IF text \in {"true", "false"} THEN Ok(Bool(text = "true"))
    ELSE IF Len(text) > 0 /\ DigitPrefix(text) = text THEN Ok(parseInt(text))
    ELSE IF /\ Len(text) >= 2
            /\ SubSeq(text, 1, 1) = "\"" /\ SubSeq(text, Len(text), Len(text)) = "\""
            /\ IndexOf(SubSeq(text, 2, Len(text) - 1), "\"", 1) = 0
    THEN Ok(Str(SubSeq(text, 2, Len(text) - 1)))
    ELSE IF /\ Len(text) >= 2
            /\ SubSeq(text, 1, 2) = "{\"" /\ SubSeq(text, Len(text), Len(text)) = "}"
            /\ Match(text, "\":", "}") # Null
            /\ Match(text, "\":", "}").v \in {"true", "false"}
            /\ IndexOf(Match(text, "{\"", "\":").v, "\"", 1) = 0
    THEN Ok([t |-> "object",
             v |-> [name |-> Match(text, "{\"", "\":").v,
                    value |-> Match(text, "\":", "}").v = "true"]])
    ELSE Throw("Unexpected token")

\* transformResponse of axios 0.21.1: a body that is a JSON text is handed
\* over parsed, any other body as the string it is
transformResponse(body) ==
    LET Data(parsed) == IF parsed.kind = "ok" THEN parsed.value ELSE Str(body)
    IN Data(JSONparse(body))

removeTender_post(companyId, tenderId, s) ==
    Req("POST", Origin \o "TarjousListaukset/PoistaKeskenerainenTarjous", TokenCookie(s),
        <<<<"tarjousid", tenderId>>, <<"palvelu", NumToStr(companyId)>>>>)

\* response.data.includes('{"error":true}'): of a string the search for the
\* marker, of an array the search for an element; no other value has the
\* method
removeTender_includes(data) ==
    IF data.t = "string" THEN Ok(IndexOf(data.v, ErrorMarker, 1) # 0)
    ELSE IF data.t = "array" THEN Ok(FALSE)
    ELSE TypeError

\* the .catch of removeTender takes no argument; then the test of the body
removeTender_return(resp) ==
    LET Found(includes) ==
            IF includes.kind = "error" THEN includes
            ELSE IF includes.value THEN Throw("Error removing tender")
            ELSE Ok(Undefined)
    IN IF Is2xx(resp) THEN Found(removeTender_includes(transformResponse(resp.data.html)))
       ELSE Throw("Error removing tender")

----------------------------------------------------------------------------
(* The calls.  session[o] is the Session object o of the caller, culture   *)
(* the culture the portal keeps per session id, call[c] the call that      *)
(* caller c has made last: the operation, its arguments, the requests it   *)
(* has issued, the answer it handled last and its outcome.  A call yields  *)
(* at each await: one action issues a request, the next one takes the      *)
(* answer and runs the code up to the next await or to the end.            *)

Slugs == {"helsinki", "helsinkii"}

CompanyIds == {13}

NoticeIds == {7}

TenderIds == {"555"}

Usernames == {"user"}

Passwords == {"secret"}

\* the sessions a caller may hold at the start: one the portal knows,
\* anonymous or logged in before, and the made-up one of the tests
InitSessions ==
    {Obj(Str("u1"), Str("s1"), Undefined),
     Obj(Str("u1"), Str("s1"), Str("t0")),
     Obj(Str("invalid"), Str("invalid"), Undefined)}

PortalSessions == {"s1"}

\* documents handed to matchLocale: the script of each culture, of cultures
\* the enum does not have, no script, a script cut short, two scripts
LocaleDocuments ==
    {CultureScript(l) : l \in Languages \cup {"nb-NO", "fi", ""}}
    \cup {"<html>" \o CultureScript(l) \o "</html>" : l \in {"sv-SE", "FI-fi"}}
    \cup {"", "<html></html>",
          "var __cultureInfo = {\"name\":\"fi-FI\"};",
          CultureScript("de-DE") \o CultureScript("fi-FI"),
          CultureScript("en-GB") \o CultureScript("da-DK")}

\* texts handed to boolFromYesOrNo
YesNoTexts ==
    {"kyllä", "Kyllä", "KYLLÄ", "ja", "Ja", "JA", "yes", "Yes", "YES", "yEs",
     "ei", "Ei", "EI", "nej", "Nej", "NEJ", "no", "No", "NO",
     "", "y", "n", "kylla", "joo", "nein", "true", " yes", "no ", "yes.", "nope"}

\* texts handed to parseLocalizedDate: a time in the format of each
\* language, a date without a time, one with the timezone note of the
\* details page, a day that no month has, no date
DateTexts ==
    {"31.12.2021 10:00:00", "1.2.2021 09:05:00", "2021-12-31 10:00:00",
     "31/12/2021 10:00:00", "31-12-2021 10:00:00", "31.12.2021",
     "31.12.2021 10:00:00  (UTC+2)", "30.2.2021 10:00:00", "soon", ""}

IdleCall ==
    [op |-> "none", pc |-> "idle", companyId |-> 0, noticeId |-> 0,
     language |-> "", cred |-> <<>>, sobj |-> 0, reqs |-> <<>>,
     resp |-> NoResp, pages |-> <<>>, pending |-> {}, result |-> Pending,
     prior |-> "", arg |-> <<>>]

Init ==
    /\ session \in [{1} -> InitSessions]
    /\ culture \in [PortalSessions -> Languages]
    /\ call = [c \in {1} |-> IdleCall]

Callers == DOMAIN call

\* the caller awaits each call before it makes the next one
Free(c) == call[c].pc \in {"idle", "done"} /\ call[c].pending = {}

\* the language of the setSessionLanguage call that the caller has just
\* seen return, '' when the call before was another one or failed
Prior(c) ==
    IF call[c].op = "setSessionLanguage" /\ call[c].result.kind = "ok"
    THEN call[c].language ELSE ""

\* the caller has just seen getSession return session object o
Fresh(c, o) ==
    call[c].op = "getSession" /\ call[c].result.kind = "ok" /\ call[c].sobj = o

At(c, op, pc) == call[c].op = op /\ call[c].pc = pc

\* the request that call c waits for
Awaited(c) == call[c].reqs[Len(call[c].reqs)]

\* the synchronous start of an operation: its first request is issued
Start(c, op, pc, fields, req) ==
    call' = [call EXCEPT ![c] =
               [f \in DOMAIN IdleCall |->
                  IF f \in DOMAIN fields THEN fields[f]
                  ELSE IF f = "op" THEN op
                  ELSE IF f = "pc" THEN pc
                  ELSE IF f = "reqs" THEN <<req>>
                  ELSE IdleCall[f]]]

\* the call settles: its promise is fulfilled or rejected
Settle(c, resp, result) ==
    call' = [call EXCEPT ![c].pc = "done", ![c].resp = resp,
                         ![c].pending = {}, ![c].result = result]

\* the call goes on to its next await with another request
Continue(c, pc, resp, req) ==
    call' = [call EXCEPT ![c].pc = pc, ![c].resp = resp,
                         ![c].reqs = Append(@, req)]

\* a call of a synchronous export: it has returned or thrown when the
\* caller goes on
Apply(c, op, arg, result) ==
    call' = [call EXCEPT ![c] =
               [IdleCall EXCEPT !.op = op, !.pc = "done", !.arg = arg,
                                !.result = result]]

companySlugToId_call(c) ==
    /\ Free(c)
    /\ \E slug \in Slugs :
         Start(c, "companySlugToId", "head", <<>>, Req("HEAD", SlugUrl(slug), "", <<>>))
    /\ UNCHANGED <<session, culture>>

companySlugToId_head(c) ==
    /\ At(c, "companySlugToId", "head")
    /\ \E resp \in PortalHead(Awaited(c)) :
         Settle(c, resp, companySlugToId_return(resp))
    /\ UNCHANGED <<session, culture>>

\* session = await getSession(slug): the caller keeps the returned object
\* as its session o
getSession_call(c) ==
    /\ Free(c)
    /\ \E slug \in Slugs, o \in DOMAIN session :
         Start(c, "getSession", "head", [sobj |-> o], Req("HEAD", SlugUrl(slug), "", <<>>))
    /\ UNCHANGED <<session, culture>>

getSession_head(c) ==
    /\ At(c, "getSession", "head")
    /\ \E resp \in PortalHead(Awaited(c)) :
         LET out == getSession_return(resp)
         IN /\ Settle(c, resp, out)
            /\ session' = IF out.kind = "ok"
                          THEN [session EXCEPT ![call[c].sobj] = out.value]
                          ELSE session
    /\ UNCHANGED culture

loginToSession_call(c) ==
    /\ Free(c)
    /\ \E companyId \in CompanyIds, username \in Usernames,
          password \in Passwords, o \in DOMAIN session :
         Start(c, "loginToSession", "get",
               [companyId |-> companyId, cred |-> <<username, password>>, sobj |-> o],
               IndexGet(companyId, session[o]))
    /\ UNCHANGED <<session, culture>>

\* loginToSession_get asking for the index page a second time when the
\* first request failed
loginToSession_get_again(c) ==
    /\ At(c, "loginToSession", "get")
    /\ \E resp \in PortalGet(Awaited(c), "index") :
         IF Is2xx(resp)
         THEN Continue(c, "post", resp,
                       loginToSession_post(call[c].companyId, call[c].cred[1],
                                           call[c].cred[2], session[call[c].sobj],
                                           resp.data))
         ELSE IF Len(call[c].reqs) < 2
         THEN Continue(c, "get", resp, Awaited(c))
         ELSE Settle(c, resp, IndexGet_catch(resp))
    /\ UNCHANGED <<session, culture>>

loginToSession_get(c) ==
    /\ At(c, "loginToSession", "get")
    /\ \E resp \in PortalGet(Awaited(c), "index") :
         IF Is2xx(resp)
         THEN Continue(c, "post", resp,
                       loginToSession_post(call[c].companyId, call[c].cred[1],
                                           call[c].cred[2], session[call[c].sobj],
                                           resp.data))
         ELSE Settle(c, resp, IndexGet_catch(resp))
    /\ UNCHANGED <<session, culture>>

\* loginToSession_answer with a token kept for the whole module: the token
\* read from the redirect goes into every session object
loginToSession_answer_shared(c) ==
    /\ At(c, "loginToSession", "post")
    /\ \E resp \in PortalLogin(Awaited(c)) :
         LET o == call[c].sobj
             h == IF Is2xx(resp) THEN [out |-> None, token |-> session[o].token]
                  ELSE loginToSession_catch(session[o].token, resp)
         IN /\ session' = [p \in DOMAIN session |-> [session[p] EXCEPT !.token = h.token]]
            /\ Settle(c, resp, IF h.out = None THEN loginToSession_return(o, h.token)
                               ELSE h.out)
    /\ UNCHANGED culture

\* loginToSession_answer that keeps a token the session already has
loginToSession_answer_keepFirst(c) ==
    /\ At(c, "loginToSession", "post")
    /\ \E resp \in PortalLogin(Awaited(c)) :
         LET o == call[c].sobj
             h == IF Is2xx(resp) THEN [out |-> None, token |-> session[o].token]
                  ELSE loginToSession_catch(session[o].token, resp)
             kept == IF Falsy(session[o].token) THEN h.token ELSE session[o].token
         IN /\ session' = [session EXCEPT ![o].token = kept]
            /\ Settle(c, resp, IF h.out = None THEN loginToSession_return(o, kept)
                               ELSE h.out)
    /\ UNCHANGED culture

loginToSession_answer(c) ==
    /\ At(c, "loginToSession", "post")
    /\ \E resp \in PortalLogin(Awaited(c)) :
         LET o == call[c].sobj
             h == IF Is2xx(resp) THEN [out |-> None, token |-> session[o].token]
                  ELSE loginToSession_catch(session[o].token, resp)
         IN /\ session' = [session EXCEPT ![o].token = h.token]
            /\ Settle(c, resp, IF h.out = None THEN loginToSession_return(o, h.token)
                               ELSE h.out)
    /\ UNCHANGED culture

setSessionLanguage_call(c) ==
    /\ Free(c)
    /\ \E companyId \in CompanyIds, language \in Languages, o \in DOMAIN session :
         Start(c, "setSessionLanguage", "get",
               [companyId |-> companyId, language |-> language, sobj |-> o,
                prior |-> IF Fresh(c, o) THEN "getSession" ELSE ""],
               IndexGet(companyId, session[o]))
    /\ UNCHANGED <<session, culture>>

setSessionLanguage_get(c) ==
    /\ At(c, "setSessionLanguage", "get")
    /\ \E resp \in PortalGet(Awaited(c), "index") :
         IF Is2xx(resp)
         THEN Continue(c, "post", resp,
                       setSessionLanguage_post(call[c].companyId, call[c].language,
                                               session[call[c].sobj], resp.data))
         ELSE Settle(c, resp, IndexGet_catch(resp))
    /\ UNCHANGED <<session, culture>>

setSessionLanguage_answer(c) ==
    /\ At(c, "setSessionLanguage", "post")
    /\ \E a \in PortalLanguage(Awaited(c)) :
         /\ culture' = a[2]
         /\ Settle(c, a[1], setSessionLanguage_return(call[c].sobj, call[c].language, a[1]))
    /\ UNCHANGED session

getSessionLanguage_call(c) ==
    /\ Free(c)
    /\ \E companyId \in CompanyIds, o \in DOMAIN session :
         Start(c, "getSessionLanguage", "get",
               [companyId |-> companyId, sobj |-> o,
                prior |-> IF call[c].sobj = o THEN Prior(c) ELSE ""],
               getSessionLanguage_get(companyId, session[o]))
    /\ UNCHANGED <<session, culture>>

getSessionLanguage_answer(c) ==
    /\ At(c, "getSessionLanguage", "get")
    /\ \E resp \in PortalGet(Awaited(c), "notices") :
         Settle(c, resp, getSessionLanguage_return(resp))
    /\ UNCHANGED <<session, culture>>

getCompanyProcurementOrganizationId_call(c) ==
    /\ Free(c)
    /\ \E companyId \in CompanyIds, o \in DOMAIN session :
         Start(c, "getCompanyProcurementOrganizationId", "get",
               [companyId |-> companyId, sobj |-> o],
               getCompanyProcurementOrganizationId_get(companyId, session[o]))
    /\ UNCHANGED <<session, culture>>

getCompanyProcurementOrganizationId_answer(c) ==
    /\ At(c, "getCompanyProcurementOrganizationId", "get")
    /\ \E resp \in PortalGet(Awaited(c), "index") :
         Settle(c, resp, getCompanyProcurementOrganizationId_return(resp))
    /\ UNCHANGED <<session, culture>>

getNotices_call(c) ==
    /\ Free(c)
    /\ \E companyId \in CompanyIds, o \in DOMAIN session :
         Start(c, "getNotices", "get",
               [companyId |-> companyId, sobj |-> o,
                prior |-> IF /\ call[c].sobj = o
                             /\ call[c].companyId = companyId
                             /\ call[c].prior = "getSession"
                          THEN Prior(c) ELSE ""],
               getNotices_get(companyId, session[o]))
    /\ UNCHANGED <<session, culture>>

getNotices_answer(c) ==
    /\ At(c, "getNotices", "get")
    /\ \E resp \in PortalGet(Awaited(c), "listing"), lenient \in BOOLEAN :
         Settle(c, resp, getNotices_return(resp, lenient))
    /\ UNCHANGED <<session, culture>>

getTenderId_call(c) ==
    /\ Free(c)
    /\ \E companyId \in CompanyIds, noticeId \in NoticeIds, o \in DOMAIN session :
         Start(c, "getTenderId", "get",
               [companyId |-> companyId, noticeId |-> noticeId, sobj |-> o],
               getTenderId_get(companyId, noticeId, session[o]))
    /\ UNCHANGED <<session, culture>>

getTenderId_answer(c) ==
    /\ At(c, "getTenderId", "get")
    /\ \E resp \in PortalGet(Awaited(c), "tenders") :
         Settle(c, resp, getTenderId_return(resp))
    /\ UNCHANGED <<session, culture>>

removeTender_call(c) ==
    /\ Free(c)
    /\ \E companyId \in CompanyIds, tenderId \in TenderIds, o \in DOMAIN session :
         Start(c, "removeTender", "post",
               [companyId |-> companyId, arg |-> <<tenderId>>, sobj |-> o],
               removeTender_post(companyId, tenderId, session[o]))
    /\ UNCHANGED <<session, culture>>

removeTender_answer(c) ==
    /\ At(c, "removeTender", "post")
    /\ \E resp \in PortalRemove(Awaited(c)) : Settle(c, resp, removeTender_return(resp))
    /\ UNCHANGED <<session, culture>>

getNotice_call(c) ==
    /\ Free(c)
    /\ \E companyId \in CompanyIds, noticeId \in NoticeIds, o \in DOMAIN session :
         Start(c, "getNotice", "processing",
               [companyId |-> companyId, noticeId |-> noticeId, sobj |-> o],
               getNotice_processing(companyId, noticeId, session[o]))
    /\ UNCHANGED <<session, culture>>

\* getNotice_first that issues the two requests after a failed one as well
getNotice_first_anyAnswer(c) ==
    /\ At(c, "getNotice", "processing")
    /\ \E resp \in PortalGet(Awaited(c), "processing") :
         IF ~Is2xx(resp)
         THEN call' = [call EXCEPT
                 ![c].pc = "done", ![c].resp = resp, ![c].result = getNotice_catch(resp),
                 ![c].reqs = @ \o <<getNotice_details(call[c].noticeId, session[call[c].sobj]),
                                    getNotice_attachments(call[c].noticeId, session[call[c].sobj])>>]
         ELSE IF matchLocale(resp.data.html).kind = "error"
         THEN Settle(c, resp, matchLocale(resp.data.html))
         ELSE call' = [call EXCEPT
                 ![c].pc = "all", ![c].resp = resp,
                 ![c].pages = [n \in {"processing"} |-> resp.data],
                 ![c].pending = {"details", "attachments"},
                 ![c].reqs = @ \o <<getNotice_details(call[c].noticeId, session[call[c].sobj]),
                                    getNotice_attachments(call[c].noticeId, session[call[c].sobj])>>]
    /\ UNCHANGED <<session, culture>>

\* the processing page is in: the locale is matched and the two other pages
\* are requested, both before either is awaited
getNotice_first(c) ==
    /\ At(c, "getNotice", "processing")
    /\ \E resp \in PortalGet(Awaited(c), "processing") :
         IF ~Is2xx(resp) THEN Settle(c, resp, getNotice_catch(resp))
         ELSE IF matchLocale(resp.data.html).kind = "error"
         THEN Settle(c, resp, matchLocale(resp.data.html))
         ELSE call' = [call EXCEPT
                 ![c].pc = "all", ![c].resp = resp,
                 ![c].pages = [n \in {"processing"} |-> resp.data],
                 ![c].pending = {"details", "attachments"},
                 ![c].reqs = @ \o <<getNotice_details(call[c].noticeId, session[call[c].sobj]),
                                    getNotice_attachments(call[c].noticeId, session[call[c].sobj])>>]
    /\ UNCHANGED <<session, culture>>

\* the Notice object
getNotice_return(noticeId, pages, lenient) ==
    LET locale == matchLocale(pages["processing"].html).value.v
        d == Select(pages["details"], "details")
        text(id) == IF id \in DOMAIN d THEN d[id] ELSE ""
        dueDate == SplitHead(text("valDueDate"), "  (UTC")
        given == Len(text("valDueDate")) # 0
        published == parseLocalizedDate(text("valIlmPaiva"), locale, lenient)
        deadline == IF given THEN parseLocalizedDate(dueDate, locale, lenient)
                    ELSE Ok(Null)
        flags == flagsOf(Select(pages["processing"], "icons"), FALSE)
        files == Select(pages["attachments"], "files")
        links == Select(pages["attachments"], "links")
    IN IF published.kind = "error" THEN published
       ELSE IF deadline.kind = "error" THEN deadline
       ELSE IF flags.kind = "error" THEN flags
       ELSE Ok([id |-> Num(noticeId),
                customId |-> Str(text("valHankTunniste")),
                published |-> published.value,
                originalPublished |-> Str(text("valIlmPaiva")),
                deadline |-> deadline.value,
                originalDeadline |-> IF given THEN Str(dueDate) ELSE Null,
                unit |-> Str(text("valHankYksMarkNimi")),
                title |-> Str(text("valHankNimi")),
                flags |-> flags.value,
                types |-> Arr(Select(pages["processing"], "types")),
                description |-> IF "valKuvaus" \in DOMAIN d THEN Str(d["valKuvaus"])
                                ELSE Null,
                authorityType |-> Str(text("valHankYksLuo")),
                category |-> Str(text("valHankLaj")),
                attachments |->
                    Arr([i \in 1..Len(files) |->
                           [fileName |-> Str(files[i].text),
                            fileUuid |->
                                IF files[i].href = Undefined THEN Undefined
                                ELSE Str(ReplaceFirst(files[i].href.v,
                                         "../Document/Open/?fileType=TarjPyynTied&id=", ""))]]),
                links |-> Arr(SelectSeq(links, LAMBDA href : href # Undefined))])

\* Promise.all: the first rejection rejects the call, the other request
\* stays in flight; the call goes on when both pages are in
getNotice_all(c) ==
    /\ At(c, "getNotice", "all")
    /\ \E part \in call[c].pending, lenient \in BOOLEAN :
         \E resp \in PortalGet(call[c].reqs[IF part = "details" THEN 2 ELSE 3], part) :
            LET pages == [n \in DOMAIN call[c].pages \cup {part} |->
                            IF n = part THEN resp.data ELSE call[c].pages[n]]
            IN IF ~Is2xx(resp)
               THEN call' = [call EXCEPT
                       ![c].pc = "done", ![c].resp = resp,
                       ![c].pending = @ \ {part},
                       ![c].result = getNotice_catch(resp)]
               ELSE IF call[c].pending = {part}
               THEN call' = [call EXCEPT
                       ![c].pc = "done", ![c].resp = resp, ![c].pages = pages,
                       ![c].pending = {},
                       ![c].result = getNotice_return(call[c].noticeId, pages, lenient)]
               ELSE call' = [call EXCEPT
                       ![c].resp = resp, ![c].pages = pages,
                       ![c].pending = @ \ {part}]
    /\ UNCHANGED <<session, culture>>

\* the answer to the request that was still in flight when Promise.all
\* rejected: its handler runs, the settled call keeps its outcome
getNotice_late(c) ==
    /\ At(c, "getNotice", "done")
    /\ \E part \in call[c].pending :
         \E resp \in PortalGet(call[c].reqs[IF part = "details" THEN 2 ELSE 3], part) :
            call' = [call EXCEPT ![c].resp = resp, ![c].pending = @ \ {part}]
    /\ UNCHANGED <<session, culture>>

getCompanies_call(c) ==
    /\ Free(c)
    /\ Start(c, "getCompanies", "get", <<>>, getCompanies_get)
    /\ UNCHANGED <<session, culture>>

getCompanies_answer(c) ==
    /\ At(c, "getCompanies", "get")
    /\ \E resp \in PortalIndex : Settle(c, resp, getCompanies_return(resp))
    /\ UNCHANGED <<session, culture>>

matchLocale_call(c) ==
    /\ Free(c)
    /\ \E html \in LocaleDocuments :
         Apply(c, "matchLocale", <<html>>, matchLocale(html))
    /\ UNCHANGED <<session, culture>>

boolFromYesOrNo_call(c) ==
    /\ Free(c)
    /\ \E text \in YesNoTexts :
         Apply(c, "boolFromYesOrNo", <<text>>, boolFromYesOrNo(text))
    /\ UNCHANGED <<session, culture>>

parseLocalizedDate_call(c) ==
    /\ Free(c)
    /\ \E date \in DateTexts, locale \in Languages, lenient \in BOOLEAN :
         Apply(c, "parseLocalizedDate", <<date, locale>>,
               parseLocalizedDate(date, locale, lenient))
    /\ UNCHANGED <<session, culture>>

Next ==
    \/ \E c \in Callers : companySlugToId_call(c)
    \/ \E c \in Callers : companySlugToId_head(c)
    \/ \E c \in Callers : getSession_call(c)
    \/ \E c \in Callers : getSession_head(c)
    \/ \E c \in Callers : loginToSession_call(c)
    \/ \E c \in Callers : loginToSession_get(c)
    \/ \E c \in Callers : loginToSession_answer(c)
    \/ \E c \in Callers : setSessionLanguage_call(c)
    \/ \E c \in Callers : setSessionLanguage_get(c)
    \/ \E c \in Callers : setSessionLanguage_answer(c)
    \/ \E c \in Callers : getSessionLanguage_call(c)
    \/ \E c \in Callers : getSessionLanguage_answer(c)

Spec == Init /\ [][Next]_vars

\* the operations that read pages of the portal: the caller holds a
\* session, which none of them changes, or needs none
NextPages ==
    \/ \E c \in Callers : getSessionLanguage_call(c)
    \/ \E c \in Callers : getSessionLanguage_answer(c)
    \/ \E c \in Callers : getCompanyProcurementOrganizationId_call(c)
    \/ \E c \in Callers : getCompanyProcurementOrganizationId_answer(c)
    \/ \E c \in Callers : getNotices_call(c)
    \/ \E c \in Callers : getNotices_answer(c)
    \/ \E c \in Callers : getTenderId_call(c)
    \/ \E c \in Callers : getTenderId_answer(c)
    \/ \E c \in Callers : removeTender_call(c)
    \/ \E c \in Callers : removeTender_answer(c)
    \/ \E c \in Callers : getNotice_call(c)
    \/ \E c \in Callers : getNotice_first(c)
    \/ \E c \in Callers : getNotice_all(c)
    \/ \E c \in Callers : getNotice_late(c)
    \/ \E c \in Callers : getCompanies_call(c)
    \/ \E c \in Callers : getCompanies_answer(c)

SpecPages == Init /\ [][NextPages]_vars

\* the sessions of Init: the page operations of SpecRequests start on these
OnInitSession(c) ==
    session \in [DOMAIN session -> InitSessions]

\* every operation that issues requests: the session operations on every
\* session they lead to, the page operations on the sessions of Init
NextRequests ==
    \/ \E c \in Callers : companySlugToId_call(c)
    \/ \E c \in Callers : companySlugToId_head(c)
    \/ \E c \in Callers : getSession_call(c)
    \/ \E c \in Callers : getSession_head(c)
    \/ \E c \in Callers : loginToSession_call(c)
    \/ \E c \in Callers : loginToSession_get(c)
    \/ \E c \in Callers : loginToSession_answer(c)
    \/ \E c \in Callers : setSessionLanguage_call(c)
    \/ \E c \in Callers : setSessionLanguage_get(c)
    \/ \E c \in Callers : setSessionLanguage_answer(c)
    \/ \E c \in Callers : getSessionLanguage_call(c)
    \/ \E c \in Callers : getSessionLanguage_answer(c)
    \/ \E c \in Callers : OnInitSession(c) /\ getCompanyProcurementOrganizationId_call(c)
    \/ \E c \in Callers : getCompanyProcurementOrganizationId_answer(c)
    \/ \E c \in Callers : OnInitSession(c) /\ getNotices_call(c)
    \/ \E c \in Callers : getNotices_answer(c)
    \/ \E c \in Callers : OnInitSession(c) /\ getTenderId_call(c)
    \/ \E c \in Callers : getTenderId_answer(c)
    \/ \E c \in Callers : OnInitSession(c) /\ removeTender_call(c)
    \/ \E c \in Callers : removeTender_answer(c)
    \/ \E c \in Callers : OnInitSession(c) /\ getNotice_call(c)
    \/ \E c \in Callers : getNotice_first(c)
    \/ \E c \in Callers : getNotice_all(c)
    \/ \E c \in Callers : getNotice_late(c)
    \/ \E c \in Callers : OnInitSession(c) /\ getCompanies_call(c)
    \/ \E c \in Callers : getCompanies_answer(c)

SpecRequests == Init /\ [][NextRequests]_vars

\* Two callers, each with a session object of its own, the two objects
\* naming different sessions of the portal.  Each caller makes one call, of
\* an operation that writes the session (loginToSession), that changes the
\* portal's state for it (setSessionLanguage) or that issues requests side
\* by side (getNotice, which the second caller makes); the calls interleave
\* at every await.
InitPair ==
    /\ session \in {s1 @@ s2 : s1 \in [{1} -> {Obj(Str("u1"), Str("s1"), Undefined),
                                              Obj(Str("u1"), Str("s1"), Str("t0"))}],
                               s2 \in [{2} -> {Obj(Str("u2"), Str("s2"), Undefined),
                                              Obj(Str("invalid"), Str("invalid"), Undefined)}]}
    /\ culture = [id \in {"s1", "s2"} |-> "fi-FI"]
    /\ call = [c \in {1, 2} |-> IdleCall]

\* caller c makes its one call, on the session object of its own
First(c) == call[c].pc = "idle" /\ call'[c].sobj = c

NextPair ==
    \/ \E c \in Callers : loginToSession_call(c) /\ First(c)
    \/ \E c \in Callers : loginToSession_get(c)
    \/ \E c \in Callers : loginToSession_answer(c)
    \/ \E c \in Callers : setSessionLanguage_call(c) /\ First(c)
    \/ \E c \in Callers : setSessionLanguage_get(c)
    \/ \E c \in Callers : setSessionLanguage_answer(c)
    \/ \E c \in Callers \ {1} : getNotice_call(c) /\ First(c)
    \/ \E c \in Callers : getNotice_first(c)
    \/ \E c \in Callers : getNotice_all(c)
    \/ \E c \in Callers : getNotice_late(c)

SpecPair == InitPair /\ [][NextPair]_vars

\* Two callers that each make one loginToSession call on the one session
\* object they share; the calls interleave at their awaits.
InitLogins ==
    /\ session \in [{1} -> InitSessions]
    /\ culture \in [PortalSessions -> {"fi-FI"}]
    /\ call = [c \in {1, 2} |-> IdleCall]

NextLogins ==
    \/ \E c \in Callers : call[c].pc = "idle" /\ loginToSession_call(c)
    \/ \E c \in Callers : loginToSession_get(c)
    \/ \E c \in Callers : loginToSession_answer(c)

SpecLogins == InitLogins /\ [][NextLogins]_vars

\* the synchronous exports of utilities.ts, called on their own: they read
\* no session and send no request
InitUtilities ==
    /\ session = [o \in {1} |-> Obj(Str("u1"), Str("s1"), Undefined)]
    /\ culture = [s \in PortalSessions |-> "fi-FI"]
    /\ call = [c \in {1} |-> IdleCall]

NextUtilities ==
    \/ \E c \in Callers : matchLocale_call(c)
    \/ \E c \in Callers : boolFromYesOrNo_call(c)
    \/ \E c \in Callers : parseLocalizedDate_call(c)

SpecUtilities == InitUtilities /\ [][NextUtilities]_vars

----------------------------------------------------------------------------
(* Properties *)

\* the value of the cookie `name` among the Set-Cookie headers of an
\* answer, as HTTP defines it: the text between "name=" at the start of a
\* header and its first ";" (or its end); Null when no header sets it
SetCookieValue(resp, name) ==
    LET lines == IF resp.t = "response" /\ resp.setCookie.t = "array"
                 THEN resp.setCookie.v ELSE <<>>
        hits == SelectSeq(lines, LAMBDA l :
                    Len(l) > Len(name) /\ SubSeq(l, 1, Len(name) + 1) = name \o "=")
    IN IF Len(hits) = 0 THEN Null
       ELSE LET rest == Substr(hits[1], Len(name) + 1)
                i == IndexOf(rest, ";", 1)
            IN Str(IF i = 0 THEN rest ELSE SubSeq(rest, 1, i - 1))

\* what the code reads out of the concatenated Set-Cookie headers
SetCookieRead(resp, pre, post) ==
    IF resp.t = "response" /\ resp.setCookie.t = "array"
    THEN Match(Join(resp.setCookie.v, ""), pre, post)
    ELSE Null

LoginFailed == Throw("Failed to log in, bad username/password?")

\* C1: loginToSession, whatever the session passed in: a step-2 POST that is
\* answered with a status that is no redirect makes the call fail with
\* the login-failed error and leaves session.token as it was.
C1_NonRedirectFailsLogin ==
    [][\A c \in Callers :
         (/\ At(c, "loginToSession", "post")
          /\ call'[c].pc = "done"
          /\ call'[c].resp.t = "response"
          /\ ~Is3xx(call'[c].resp))
         => /\ call'[c].result = LoginFailed
            /\ session'[call[c].sobj].token = session[call[c].sobj].token]_vars

\* C2 as stated: a step-2 POST answered with a redirect that carries a
\* TarjPalv cookie writes the cookie's value into the token of the session
\* passed in, returns that very object and leaves uuid and id alone.
C2_RedirectCookieBecomesToken ==
    [][\A c \in Callers :
         (/\ At(c, "loginToSession", "post")
          /\ call'[c].pc = "done"
          /\ Is3xx(call'[c].resp)
          /\ SetCookieValue(call'[c].resp, "TarjPalv") # Null)
         => /\ session'[call[c].sobj].token = SetCookieValue(call'[c].resp, "TarjPalv")
            /\ call'[c].result = Ok(Ref(call[c].sobj))
            /\ session'[call[c].sobj].uuid = session[call[c].sobj].uuid
            /\ session'[call[c].sobj].id = session[call[c].sobj].id]_vars

\* C2 amended: a step-2 POST answered with status 302 whose Set-Cookie
\* headers, concatenated, hold 'TarjPalv=<value>;' with a non-empty value
\* writes the value of the first such text into the token of the session
\* passed in, returns that very object and leaves uuid and id alone.
C2_Status302CookieBecomesToken ==
    [][\A c \in Callers :
         (/\ At(c, "loginToSession", "post")
          /\ call'[c].pc = "done"
          /\ call'[c].resp.t = "response"
          /\ call'[c].resp.status = 302
          /\ SetCookieRead(call'[c].resp, "TarjPalv=", ";") \notin {Null, Str("")})
         => /\ session'[call[c].sobj].token = SetCookieRead(call'[c].resp, "TarjPalv=", ";")
            /\ call'[c].result = Ok(Ref(call[c].sobj))
            /\ session'[call[c].sobj].uuid = session[call[c].sobj].uuid
            /\ session'[call[c].sobj].id = session[call[c].sobj].id]_vars

\* a login that a 302 with a token cookie has answered: the session that
\* held the token t0 holds the token of the cookie and is what is returned
C2_Witness ==
    \E c \in Callers :
        /\ At(c, "loginToSession", "done")
        /\ call[c].resp.t = "response"
        /\ call[c].resp.status = 302
        /\ SetCookieValue(call[c].resp, "TarjPalv") = Str("t2")
        /\ session[call[c].sobj].token = Str("t2")
        /\ call[c].result = Ok(Ref(call[c].sobj))

\* C3: setSessionLanguage returns the session only when its POST was
\* answered with a redirect whose culture cookie names the language asked
\* for; an answer with a status that is no redirect is a failure.
C3_LanguageSetOnlyOnConfirmedRedirect ==
    \A c \in Callers :
        (At(c, "setSessionLanguage", "done") /\ call[c].result.kind = "ok")
        => /\ Is3xx(call[c].resp)
           /\ SetCookieRead(call[c].resp, "culture=", "&Expires") = Str(call[c].language)

C5_GetReturnsLanguageSet ==
    \A c \in Callers :
        (/\ At(c, "getSessionLanguage", "done")
         /\ call[c].prior # ""
         /\ call[c].result.kind = "ok")
        => call[c].result.value = Str(call[c].prior)

\* the value of `key` in the query string of the Location of an answer
RedirectParam(resp, key) ==
    IF resp.t = "response" /\ resp.location.t = "string"
       /\ IndexOf(resp.location.v, "?", 1) > 0
    THEN QsGet(Substr(resp.location.v, IndexOf(resp.location.v, "?", 1)), key)
    ELSE Undefined

\* C6: companySlugToId and getSession: a slug request that is redirected to
\* the index page of the portal fails with the invalid-slug error; no id
\* and no session come out of it.
C6_IndexRedirectIsInvalidSlug ==
    [][\A c \in Callers :
         (/\ call[c].pc = "head"
          /\ call'[c].pc = "done"
          /\ Is3xx(call'[c].resp)
          /\ call'[c].resp.location = Str(IndexUrl))
         => /\ call'[c].result = Throw("Invalid company slug")
            /\ session' = session]_vars

\* getSession('helsinkii') was redirected to the index page and has failed
C6_Witness ==
    \E c \in Callers :
        /\ At(c, "getSession", "done")
        /\ call[c].reqs[1].url = SlugUrl("helsinkii")
        /\ Is3xx(call[c].resp)
        /\ call[c].resp.location = Str(IndexUrl)
        /\ call[c].result = Throw("Invalid company slug")

\* C7: companySlugToId fails when the HEAD is answered without a redirect or
\* the redirect carries no numeric id; it never returns undefined or NaN,
\* and what it returns is the integer of the p parameter of the redirect.
C7_SlugIdIsTheRedirectParameter ==
    \A c \in Callers :
        (At(c, "companySlugToId", "done") /\ call[c].result.kind = "ok")
        => /\ Is3xx(call[c].resp)
           /\ call[c].result.value.t = "number"
           /\ RedirectParam(call[c].resp, "p") = Str(NumToStr(call[c].result.value.v))

\* C8: every session that getSession returns has a non-empty uuid, the g
\* parameter of the redirect, and a non-empty id, the value of the
\* session-id cookie; without either, or without a redirect, it fails.
C8_SessionHasUuidAndId ==
    \A c \in Callers :
        (At(c, "getSession", "done") /\ call[c].result.kind = "ok")
        => /\ Is3xx(call[c].resp)
           /\ ~Falsy(call[c].result.value.uuid)
           /\ ~Falsy(call[c].result.value.id)
           /\ call[c].result.value.uuid = RedirectParam(call[c].resp, "g")
           /\ call[c].result.value.id
                 = SetCookieValue(call[c].resp, "ASP.NET_SessionId_TP")

\* C9: loginToSession and setSessionLanguage: when the GET of the form page
\* does not succeed, the call fails with 'Failed to load index page, bad
\* session?', no POST is issued and the session is left as it was.
C9_FailedFormPageStopsTheCall ==
    [][\A c \in Callers :
         (/\ call[c].op \in {"loginToSession", "setSessionLanguage"}
          /\ call[c].pc = "get"
          /\ call'[c] # call[c]
          /\ ~Is2xx(call'[c].resp))
         => /\ call'[c].pc = "done"
            /\ call'[c].result = Throw("Failed to load index page, bad session?")
            /\ call'[c].reqs = call[c].reqs
            /\ Len(call'[c].reqs) = 1
            /\ call'[c].reqs[1].method = "GET"
            /\ session' = session]_vars

\* the made-up session of the tests: the form page was answered with a 302,
\* setSessionLanguage has failed after its one GET
C9_Witness ==
    \E c \in Callers :
        /\ At(c, "setSessionLanguage", "done")
        /\ session[call[c].sobj].id = Str("invalid")
        /\ Len(call[c].reqs) = 1
        /\ call[c].resp.t = "response"
        /\ call[c].resp.status = 302
        /\ call[c].result = Throw("Failed to load index page, bad session?")

RedirectOnUse ==
    {"getNotices", "getNotice", "getTenderId", "getSessionLanguage",
     "getCompanyProcurementOrganizationId"}

\* in this step call c takes the answer to a request it has in flight
TakesAnswer(c) == ~Free(c) /\ call'[c] # call[c]

NamesBadSession(result) ==
    result.kind = "error" /\ IndexOf(result.message, "bad session?", 1) > 0

\* C10 as stated: for the five operations, a GET answered with a 302 makes
\* the operation fail with an error that names 'bad session?'; nothing is
\* returned and the operation issues no further request.
C10_RedirectOnUseFails ==
    [][\A c \in Callers :
         (/\ call[c].op \in RedirectOnUse
          /\ TakesAnswer(c)
          /\ call'[c].resp.t = "response"
          /\ call'[c].resp.status = 302)
         => /\ call'[c].pc = "done"
            /\ NamesBadSession(call'[c].result)
            /\ call'[c].reqs = call[c].reqs]_vars

\* C10 amended: the same, for a 302 that answers a request of a call that
\* has not failed yet (in getNotice the answer to the details page or the
\* attachments page may come in after the other one has failed the call).
C10_RedirectOnUseFailsPendingCall ==
    [][\A c \in Callers :
         (/\ call[c].op \in RedirectOnUse
          /\ TakesAnswer(c)
          /\ call[c].pc # "done"
          /\ call'[c].resp.t = "response"
          /\ call'[c].resp.status = 302)
         => /\ call'[c].pc = "done"
            /\ NamesBadSession(call'[c].result)
            /\ call'[c].reqs = call[c].reqs]_vars

\* getNotice: the processing page came in, one of the two other pages was
\* answered with a 302 and the call has failed on it
C10_Witness ==
    \E c \in Callers :
        /\ At(c, "getNotice", "done")
        /\ Len(call[c].reqs) = 3
        /\ call[c].pending # {}
        /\ call[c].resp.t = "response"
        /\ call[c].resp.status = 302
        /\ call[c].result = Throw("Failed to load notice, bad session?")

\* the text `s` read without regard to the case of its letters is `token`
SameLetters(s, token) ==
    /\ Len(s) = Len(token)
    /\ \A i \in 1..Len(s) :
         \/ SubSeq(s, i, i) = SubSeq(token, i, i)
         \/ \E k \in 1..Len(UpperCase) :
              /\ SubSeq(s, i, i) = SubSeq(UpperCase, k, k)
              /\ SubSeq(token, i, i) = SubSeq(LowerCase, k, k)

\* the culture that the first culture marker of a document names, when it
\* is one of the four
MarkedCultures(html) ==
    {l \in Languages :
       /\ IndexOf(html, "__cultureInfo = {\"name\":\"", 1) > 0
       /\ IndexOf(html, "__cultureInfo = {\"name\":\"" \o l \o "\",\"", 1)
            = IndexOf(html, "__cultureInfo = {\"name\":\"", 1)}

\* C19: matchLocale yields the Language that the culture marker of the
\* document names when it is fi-FI, sv-SE, en-GB or da-DK, and fails with
\* 'Failed to match the locale' for a document without a marker or with
\* another culture; it never yields null or undefined.
C19_MatchLocaleIsTotalOnTheFour ==
    \A c \in Callers :
        At(c, "matchLocale", "done")
        => /\ \A l \in MarkedCultures(call[c].arg[1]) : call[c].result = Ok(Str(l))
           /\ MarkedCultures(call[c].arg[1]) = {}
                => call[c].result = Throw("Failed to match the locale")
           /\ call[c].result.kind = "ok" => call[c].result.value.t = "string"

\* a document whose marker names a culture outside the enum has failed
C19_Witness ==
    \E c \in Callers :
        /\ At(c, "matchLocale", "done")
        /\ call[c].arg[1] = CultureScript("nb-NO")
        /\ call[c].result = Throw("Failed to match the locale")

\* C20: boolFromYesOrNo, without regard to case: 'kyllä', 'ja', 'yes' give
\* true, 'ei', 'nej', 'no' give false, every other text fails with 'Failed
\* to form a boolean from the given text'.
C20_YesNoTokens ==
    \A c \in Callers :
        At(c, "boolFromYesOrNo", "done")
        => call[c].result =
             IF \E tok \in {"kyllä", "ja", "yes"} : SameLetters(call[c].arg[1], tok)
             THEN Ok(Bool(TRUE))
             ELSE IF \E tok \in {"ei", "nej", "no"} : SameLetters(call[c].arg[1], tok)
             THEN Ok(Bool(FALSE))
             ELSE Throw("Failed to form a boolean from the given text")

\* 'KYLLÄ' in capitals has given true
C20_Witness ==
    \E c \in Callers :
        /\ At(c, "boolFromYesOrNo", "done")
        /\ call[c].arg[1] = "KYLLÄ"
        /\ call[c].result = Ok(Bool(TRUE))

AllDigits(s) == Len(s) > 0 /\ DigitPrefix(s) = s

\* the text has the layout of the language: three numbers of the date, in
\* the order and with the separator of the language, a blank, and the three
\* numbers of the time
DateLayout(text, locale) ==
    LET halves == Split(text, " ")
        sep == CASE locale = "fi-FI" -> "." [] locale = "en-GB" -> "/" [] OTHER -> "-"
        day == Split(halves[1], sep)
        time == Split(halves[2], ":")
        year == IF locale = "sv-SE" THEN 1 ELSE 3
    IN /\ Len(halves) = 2
       /\ Len(day) = 3 /\ Len(time) = 3
       /\ \A i \in 1..3 : AllDigits(day[i]) /\ AllDigits(time[i]) /\ Len(time[i]) <= 2
       /\ \A i \in 1..3 : Len(day[i]) <= (IF i = year THEN 4 ELSE 2)

\* C18: parseLocalizedDate, for each of the four languages: a text that
\* does not have the date layout of the language makes the call fail; no
\* date, valid or invalid, is returned for it.
C18_LayoutMismatchFails ==
    \A c \in Callers :
        (/\ At(c, "parseLocalizedDate", "done")
         /\ ~DateLayout(call[c].arg[1], call[c].arg[2]))
        => call[c].result.kind = "error"

\* the cells of the index page that getCompanies has read
CellsRead(c) == Select(call[c].resp.data, "cells")

\* the cell has all that a Company is made of
CompanyCell(cell) ==
    /\ cell.src # Undefined /\ Len(cell.src.v) > 15
    /\ cell.href # Undefined /\ Len(cell.href.v) > 26

\* the Company of a cell: the id after the 15 characters of the image path,
\* the slug after the 26 characters of the portal's URL, the caption
CompanyOf(cell) ==
    Company(parseInt(Substr(cell.src.v, 15)), Str(Substr(cell.href.v, 26)), Str(cell.p))

Returned(c, op) == At(c, op, "done") /\ call[c].result.kind = "ok"

\* the rows of a table of the notices page that getNotices has read
RowsRead(c, table) == Select(call[c].resp.data, table)

\* the fields of the details page that getNotice has read
DetailsRead(c) == Select(call[c].pages["details"], "details")

\* deadline and originalDeadline of a record are both null or both not,
\* and both null when the text of the deadline is empty
DeadlinePair(record, text) ==
    /\ (record.deadline = Null) <=> (record.originalDeadline = Null)
    /\ Trim(text) = "" => record.deadline = Null /\ record.originalDeadline = Null

\* C11: in every record that getNotices (DPS rows and notice rows) and
\* getNotice return, deadline and originalDeadline are both non-null or both
\* null; a row with an empty deadline cell has null for both.
C11_DeadlineAndRawTextGoTogether ==
    \A c \in Callers :
        /\ Returned(c, "getNotices")
             => /\ \A i \in 1..Len(call[c].result.value.dynamicPurchasingSystems) :
                     DeadlinePair(call[c].result.value.dynamicPurchasingSystems[i],
                                  RowsRead(c, "dps")[i].td4)
                /\ \A i \in 1..Len(call[c].result.value.notices) :
                     DeadlinePair(call[c].result.value.notices[i],
                                  RowsRead(c, "notices")[i].td4)
        /\ Returned(c, "getNotice")
             => DeadlinePair(call[c].result.value,
                             IF "valDueDate" \in DOMAIN DetailsRead(c)
                             THEN DetailsRead(c)["valDueDate"] ELSE "")

\* the value is a non-negative integer
IsId(v) == v.t = "number" /\ v.v >= 0

\* C12: every id of a Company, DynamicPurchasingSystem or Notice record that
\* getCompanies or getNotices return is a non-negative integer; when the id
\* cannot be recovered the operation fails, so no returned record has an id
\* that is null, undefined or NaN.
C12_IdsAreNonNegativeIntegers ==
    \A c \in Callers :
        /\ Returned(c, "getCompanies")
             => \A i \in 1..Len(call[c].result.value.v) : IsId(call[c].result.value.v[i].id)
        /\ Returned(c, "getNotices")
             => /\ \A i \in 1..Len(call[c].result.value.dynamicPurchasingSystems) :
                     IsId(call[c].result.value.dynamicPurchasingSystems[i].id)
                /\ \A i \in 1..Len(call[c].result.value.notices) :
                     IsId(call[c].result.value.notices[i].id)

\* C14: for every notice row whose link text is '<unit> / <rest>', <unit>
\* being what the record has as unit, the title of the record is '<rest>'.
C14_TitleWithoutUnitPrefix ==
    \A c \in Callers :
        Returned(c, "getNotices")
        => \A i \in 1..Len(call[c].result.value.notices) :
             LET record == call[c].result.value.notices[i]
                 text == Trim(RowsRead(c, "notices")[i].link)
                 prefix == record.unit.v \o " / "
             IN (Len(text) >= Len(prefix) /\ SubSeq(text, 1, Len(prefix)) = prefix)
                => record.title = Str(Substr(text, Len(prefix)))

\* the text of the description cell of a DPS row without the text of the
\* elements that carry the correction marker, trimmed
Unmarked(td3) ==
    Trim(Texts(SelectSeq(td3, LAMBDA s : s.class # Str("punainenfontti"))))

\* C15: for every DPS row with isBeingCorrected = true, additionalDesc is
\* the short description without the text of the correction marker,
\* trimmed; with isBeingCorrected = false it is undefined.
C15_AdditionalDescIsTheUnmarkedText ==
    \A c \in Callers :
        Returned(c, "getNotices")
        => \A i \in 1..Len(call[c].result.value.dynamicPurchasingSystems) :
             LET record == call[c].result.value.dynamicPurchasingSystems[i]
             IN IF record.isBeingCorrected = Bool(TRUE)
                THEN record.additionalDesc = Str(Unmarked(RowsRead(c, "dps")[i].td3))
                ELSE record.additionalDesc = Undefined

\* the flag that an icon stands for: the code of the first filename pattern
\* ('ikoni_<code>.gif') that matches, else the code of the fallback pattern
\* ('images/<code>_ikoni'), else none
FlagOfIcon(src) ==
    IF src = Undefined THEN Null
    ELSE IF MatchIkoni(src.v) # Null THEN MatchIkoni(src.v)
    ELSE Match(src.v, "images/", "_ikoni")

FlagsOfIcons(icons) == Arr([i \in 1..Len(icons) |-> FlagOfIcon(icons[i])])

Decodable(icons) == \A i \in 1..Len(icons) : FlagOfIcon(icons[i]) # Null

\* the icons of the processing page that getNotice has read
IconsRead(c) == Select(call[c].pages["processing"], "icons")

\* C16: wherever flags are extracted (the notice rows in getNotices, the
\* processing page in getNotice), the flag of an icon is the code of the
\* first pattern that matches, the fallback pattern being tried second; the
\* call fails with the flag-parse error only for an icon that matches
\* neither pattern, and then no flags list, shorter or empty, is returned.
C16_FlagOfFirstMatchingPattern ==
    \A c \in Callers :
        /\ Returned(c, "getNotices")
             => \A i \in 1..Len(call[c].result.value.notices) :
                  /\ Decodable(RowsRead(c, "notices")[i].icons)
                  /\ call[c].result.value.notices[i].flags
                       = FlagsOfIcons(RowsRead(c, "notices")[i].icons)
        /\ (/\ At(c, "getNotices", "done")
            /\ call[c].result = Throw("Failed to parse flag image"))
             => \E i \in 1..Len(RowsRead(c, "notices")) :
                  ~Decodable(RowsRead(c, "notices")[i].icons)
        /\ Returned(c, "getNotice")
             => /\ Decodable(IconsRead(c))
                /\ call[c].result.value.flags = FlagsOfIcons(IconsRead(c))
        /\ (/\ At(c, "getNotice", "done")
            /\ call[c].result = Throw("Failed to parse flag image"))
             => ~Decodable(IconsRead(c))

\* the link carries the id of the row: a tpID parameter that is a number
HasId(href) ==
    /\ href # Undefined
    /\ QsGet(href.v, "tpID") # Undefined
    /\ AllDigits(ToStringOf(QsGet(href.v, "tpID")))

\* the text of a deadline can be extracted: it is empty (no deadline) or
\* has the date layout of the language
DeadlineText(text, locale) == text = "" \/ DateLayout(text, locale)

\* C17: getNotices and getNotice return all or nothing: the first row,
\* field or sub-page whose extraction fails makes the call fail, so a
\* result of getNotices has exactly one record per row of each table and
\* every row (field) it was made from could be extracted: the link names
\* the id, the icons stand for flags, the dates are dates.
C17_AllOrNothing ==
    \A c \in Callers :
        /\ Returned(c, "getNotices")
             => LET result == call[c].result.value
                    dps == RowsRead(c, "dps")
                    notices == RowsRead(c, "notices")
                IN /\ Len(result.dynamicPurchasingSystems) = Len(dps)
                   /\ Len(result.notices) = Len(notices)
                   /\ \A i \in 1..Len(dps) :
                        /\ HasId(dps[i].href)
                        /\ DeadlineText(Trim(dps[i].td4), result.language.v)
                   /\ \A i \in 1..Len(notices) :
                        /\ HasId(notices[i].href)
                        /\ Decodable(notices[i].icons)
                        /\ DeadlineText(Trim(notices[i].td4), result.language.v)
        /\ Returned(c, "getNotice")
             => LET locale == matchLocale(call[c].pages["processing"].html).value.v
                    d == DetailsRead(c)
                IN /\ DOMAIN call[c].pages = {"processing", "details", "attachments"}
                   /\ Decodable(IconsRead(c))
                   /\ DateLayout(d["valIlmPaiva"], locale)
                   /\ DeadlineText(SplitHead(d["valDueDate"], "  (UTC"), locale)

\* the value of a parameter of the query of a URL: of what follows the
\* first '?', the pair with that name
QueryParam(url, name) ==
    IF IndexOf(url, "?", 1) = 0 THEN Undefined
    ELSE QsGet(Substr(url, IndexOf(url, "?", 1)), name)

\* the href of the 'modify' link of the tenders page that getTenderId has
\* read
ModifyLink(c) == call[c].resp.data.modifyHref

\* C21: getTenderId on a page that was fetched with success: without a
\* 'modify' link the call fails with 'No tenders in progress found', which
\* is neither of the errors of a failed request; with the link the result is
\* the value of the tarjID parameter of its query.
C21_TenderIdOfModifyLink ==
    \A c \in Callers :
        /\ (At(c, "getTenderId", "done") /\ Is2xx(call[c].resp))
             => IF ModifyLink(c) = Undefined
                THEN call[c].result = Throw("No tenders in progress found")
                ELSE QueryParam(ModifyLink(c).v, "tarjID") # Undefined
                     => call[c].result
                          = Ok(Str(ToStringOf(QueryParam(ModifyLink(c).v, "tarjID"))))
        /\ (At(c, "getTenderId", "done") /\ ~Is2xx(call[c].resp))
             => call[c].result # Throw("No tenders in progress found")

\* the body of the answer that removeTender has got
RemovalBody(c) == call[c].resp.data.html

\* C22: removeTender succeeds exactly when the POST is answered with a
\* success status and the body does not contain the marker {"error":true};
\* every other call fails with 'Error removing tender'.
C22_RemovalSucceedsWithoutMarker ==
    \A c \in Callers :
        At(c, "removeTender", "done")
        => IF Is2xx(call[c].resp) /\ IndexOf(RemovalBody(c), ErrorMarker, 1) = 0
           THEN call[c].result = Ok(Undefined)
           ELSE call[c].result = Throw("Error removing tender")

\* the session that call c was given
SessionOf(c) == session[call[c].sobj]

\* tokens that a session may carry: none, or that of a login
Tokens == {Undefined, Str("t0"), Str("t1")}

\* C23: getNotices and getCompanyProcurementOrganizationId send the uuid and
\* the session-id cookie only: whatever the token of the session is (absent
\* or any value), the one request they issue is the same, it names no token,
\* and the result is what the answer to the request of the anonymous
\* session gives.
C23_AnonymousSessionSuffices ==
    \A c \in Callers :
        /\ (call[c].op = "getNotices" /\ call[c].pc # "idle")
             => /\ \A token \in Tokens :
                     call[c].reqs
                       = <<getNotices_get(call[c].companyId,
                                          [SessionOf(c) EXCEPT !.token = token])>>
                /\ IndexOf(call[c].reqs[1].cookie, "TarjPalv", 1) = 0
                /\ call[c].pc = "done"
                     => /\ call[c].resp \in
                             PortalGet(getNotices_get(call[c].companyId,
                                           [SessionOf(c) EXCEPT !.token = Undefined]),
                                       "listing")
                        /\ \E lenient \in BOOLEAN :
                             call[c].result = getNotices_return(call[c].resp, lenient)
        /\ (call[c].op = "getCompanyProcurementOrganizationId" /\ call[c].pc # "idle")
             => /\ \A token \in Tokens :
                     call[c].reqs
                       = <<getCompanyProcurementOrganizationId_get(call[c].companyId,
                              [SessionOf(c) EXCEPT !.token = token])>>
                /\ IndexOf(call[c].reqs[1].cookie, "TarjPalv", 1) = 0
                /\ call[c].pc = "done"
                     => /\ call[c].resp \in
                             PortalGet(getCompanyProcurementOrganizationId_get(
                                           call[c].companyId,
                                           [SessionOf(c) EXCEPT !.token = Undefined]),
                                       "index")
                        /\ call[c].result
                             = getCompanyProcurementOrganizationId_return(call[c].resp)

\* a session without a token has got the notices of a page with one notice
C23_Witness ==
    \E c \in Callers :
        /\ Returned(c, "getNotices")
        /\ SessionOf(c).token = Undefined
        /\ Len(call[c].result.value.notices) = 1

\* the requests of a getNotice call are in order: the processing page
\* first; the details and the attachments page, if issued, after a
\* processing page that came with success; a notice only with all three
\* pages in
NoticeRequestsInOrder(c) ==
    /\ Len(call[c].reqs) \in {1, 3}
    /\ call[c].reqs[1]
         = getNotice_processing(call[c].companyId, call[c].noticeId, SessionOf(c))
    /\ call[c].pc = "processing" => Len(call[c].reqs) = 1
    /\ Len(call[c].reqs) = 3
         => /\ "processing" \in DOMAIN call[c].pages
            /\ call[c].reqs[2] = getNotice_details(call[c].noticeId, SessionOf(c))
            /\ call[c].reqs[3] = getNotice_attachments(call[c].noticeId, SessionOf(c))
    /\ (call[c].pc = "done" /\ call[c].result.kind = "ok")
         => /\ DOMAIN call[c].pages = {"processing", "details", "attachments"}
            /\ call[c].pending = {}

\* C24: getNotice issues the details and the attachments request only
\* after the processing request has returned with success, and neither of
\* them when it failed or was redirected; it issues the two in one step,
\* neither waiting for the other, and returns a notice only after both have
\* succeeded.
C24_ProcessingPageFirst ==
    [][\A c \in Callers :
         /\ (call'[c].op = "getNotice" /\ call'[c].pc # "idle")
              => NoticeRequestsInOrder(c)'
         /\ (At(c, "getNotice", "processing") /\ call'[c] # call[c])
              => /\ Len(call'[c].reqs) \in {1, 3}
                 /\ ~Is2xx(call'[c].resp)
                      => Len(call'[c].reqs) = 1 /\ call'[c].pc = "done"
         /\ (At(c, "getNotice", "all") /\ call'[c] # call[c])
              => call'[c].reqs = call[c].reqs
    ]_vars

\* a notice has been returned: three requests, all three pages in
C24_Witness ==
    \E c \in Callers :
        /\ Returned(c, "getNotice")
        /\ Len(call[c].reqs) = 3
        /\ DOMAIN call[c].pages = {"processing", "details", "attachments"}

\* the methods of the requests that call c has issued, in the order of issue
Methods(c) ==
    [i \in 1..Len(call[c].reqs) |-> call[c].reqs[i].method]

\* the method sequences that one call of `op` may have issued
RequestsOf(op) ==
    CASE op \in {"companySlugToId", "getSession"} -> {<<"HEAD">>}
      [] op \in {"loginToSession", "setSessionLanguage"}
           -> {<<"GET">>, <<"GET", "POST">>}
      [] op = "getNotice" -> {<<"GET">>, <<"GET", "GET", "GET">>}
      [] op = "removeTender" -> {<<"POST">>}
      [] OTHER -> {<<"GET">>}

\* C25: no retries. Within one call every request is issued at most once,
\* whatever the responses are: companySlugToId and getSession issue one
\* HEAD, loginToSession and setSessionLanguage one GET followed by at most
\* one POST, getNotice at most three GETs, getCompanies exactly one GET
\* however many companies are listed, every other page operation its one
\* request.
C25_NoRetries ==
    \A c \in Callers :
        call[c].op # "none" /\ call[c].reqs # <<>>
          => /\ Methods(c) \in RequestsOf(call[c].op)
             /\ \A i, j \in 1..Len(call[c].reqs) :
                  i # j => call[c].reqs[i] # call[c].reqs[j]
             /\ call[c].op = "getCompanies" => Len(call[c].reqs) = 1

\* getCompanies has returned two companies after its one GET
C25_Witness ==
    \E c \in Callers :
        /\ At(c, "getCompanies", "done")
        /\ call[c].result.kind = "ok"
        /\ Len(call[c].result.value.v) = 2
        /\ Methods(c) = <<"GET">>

\* call c is the getNotices call of the documented sequence: the caller has
\* awaited getSession, then setSessionLanguage(companyId, 'en-GB', session),
\* each returning, and then called getNotices(companyId, session)
AfterEnglishWasSet(c) ==
    call[c].op = "getNotices" /\ call[c].prior = "en-GB"

PortalId(o) == session[o].id.v

\* a step of caller c leaves alone what belongs to the other callers: their
\* calls with the results in them, their session objects, and what the
\* portal keeps for their sessions
OwnStep(c) ==
    /\ \A d \in Callers \ {c} : call'[d] = call[d]
    /\ \A o \in DOMAIN session \ {call'[c].sobj} : session'[o] = session[o]
    /\ \A id \in DOMAIN culture \ {PortalId(call'[c].sobj)} : culture'[id] = culture[id]

DueDateRead(c) ==
    IF "valDueDate" \in DOMAIN DetailsRead(c) THEN DetailsRead(c)["valDueDate"] ELSE ""

\* the text ends with an annotation in parentheses
Annotated(text) ==
    /\ Len(text) > 0
    /\ SubSeq(text, Len(text), Len(text)) = ")"
    /\ IndexOf(text, "(", 1) > 1

\* the text without the annotation and the blanks before it
Unannotated(text) == TrimEnd(SubSeq(text, 1, IndexOf(text, "(", 1) - 1))

\* C28: when the due-date text of the details page ends with a timezone
\* annotation in parentheses, a notice that getNotice returns has the text
\* without the annotation as originalDeadline and, as deadline, the instant
\* that the text without the annotation stands for.
C28_AnnotationStripped ==
    \A c \in Callers :
        (/\ Returned(c, "getNotice")
         /\ Annotated(DueDateRead(c)))
        => LET locale == matchLocale(call[c].pages["processing"].html).value.v
               text == Unannotated(DueDateRead(c))
           IN /\ call[c].result.value.originalDeadline = Str(text)
              /\ call[c].result.value.deadline
                   = parseLocalizedDate(text, locale, TRUE).value

\* the step is the one in which getSession makes session object o
Creates(o) == \E c \in Callers : At(c, "getSession", "head") /\ call[c].sobj = o

\* the step takes the redirect that answers the POST of a login on o
RedirectedLogin(o) ==
    \E c \in Callers :
        /\ At(c, "loginToSession", "post")
        /\ call[c].sobj = o
        /\ Is3xx(call'[c].resp)

\* C29: the escalation of a session is monotone. No step of an operation on
\* a session object that getSession has made changes its uuid or its id; a
\* token that is set is never cleared or made absent; and the token changes
\* only in the step of a login that was answered with a redirect.
C29_SessionMonotone ==
    [][\A o \in DOMAIN session :
         ~Creates(o)
           => /\ session'[o].uuid = session[o].uuid
              /\ session'[o].id = session[o].id
              /\ ~Falsy(session[o].token) => ~Falsy(session'[o].token)
              /\ session'[o].token # session[o].token => RedirectedLogin(o)
    ]_vars

\* the tokens a session may have before any of the logins of the model
InitTokens == {s.token : s \in InitSessions}

\* in this step call c takes the answer to the POST of its login
LoginAnswered(c) == At(c, "loginToSession", "post") /\ call'[c].pc = "done"

\* both logins have completed
BothDone == \A c \in Callers : At(c, "loginToSession", "done")

\* C30 as stated: no lock is taken, so each login that takes a redirect
\* with a TarjPalv cookie as the answer to its POST writes the token of
\* that cookie, whatever the other login has written; no other step
\* changes the token; after both logins the token is that of one of the
\* redirects or the initial one.
C30_LastRedirectWins ==
    [][/\ \A c \in Callers :
            LoginAnswered(c)
              => session'[call[c].sobj].token
                   = IF /\ Is3xx(call'[c].resp)
                        /\ SetCookieValue(call'[c].resp, "TarjPalv") # Null
                     THEN SetCookieValue(call'[c].resp, "TarjPalv")
                     ELSE session[call[c].sobj].token
       /\ (\A c \in Callers : ~LoginAnswered(c)) => session' = session
       /\ BothDone'
            => \A o \in DOMAIN session :
                 session'[o].token
                   \in InitTokens
                       \cup {SetCookieValue(call'[c].resp, "TarjPalv") : c \in Callers}
    ]_vars

\* C30 amended: the same for the answers the code reads a token from, a
\* POST answered with status 302 whose Set-Cookie headers, concatenated,
\* hold 'TarjPalv=<value>;': the token after both logins is the value read
\* from the last such answer that was handled, or the initial token when
\* there was none.
C30_Last302CookieWins ==
    [][/\ \A c \in Callers :
            LoginAnswered(c)
              => session'[call[c].sobj].token
                   = IF /\ call'[c].resp.t = "response"
                        /\ call'[c].resp.status = 302
                        /\ SetCookieRead(call'[c].resp, "TarjPalv=", ";") # Null
                     THEN SetCookieRead(call'[c].resp, "TarjPalv=", ";")
                     ELSE session[call[c].sobj].token
       /\ (\A c \in Callers : ~LoginAnswered(c)) => session' = session
       /\ BothDone'
            => \A o \in DOMAIN session :
                 session'[o].token
                   \in InitTokens
                       \cup {SetCookieRead(call'[c].resp, "TarjPalv=", ";") : c \in Callers}
    ]_vars

\* both logins were answered with a 302, the first caller's with the token
\* t1, the second caller's with t2; the first caller's answer was handled
\* last and the session holds t1
C30_Witness ==
    /\ BothDone
    /\ \A c \in Callers : call[c].resp.t = "response" /\ call[c].resp.status = 302
    /\ SetCookieRead(call[1].resp, "TarjPalv=", ";") = Str("t1")
    /\ SetCookieRead(call[2].resp, "TarjPalv=", ";") = Str("t2")
    /\ session[1].token = Str("t1")

====
